---- MODULE Spec2Model ----
(***************************************************************************)
(* Job orchestration and event streaming of the TradingAgents web server:  *)
(* server/job_manager.py (JobRecord, JobManager) and the event stream of   *)
(* server/web_app.py.                                                      *)
(*                                                                         *)
(* Text is a sequence of one-character strings, so that strip(), len() and *)
(* slicing are computed and not assumed.  An Optional[str] is a record     *)
(* [set, s]; Python's None is [set |-> FALSE, s |-> <<>>].                 *)
(***************************************************************************)
EXTENDS Integers, Sequences, FiniteSets, TLC

\* ------------------------------------------------------------------ bounds
MaxJobs == 2          \* job ids that create_job may hand out
MaxSnapshots == 2     \* snapshots one pipeline run yields at most, in SpecRun
PoolSnapshots == 1    \* the same, in the specifications with small snapshots
MaxStreams == 1       \* stream sessions opened
MaxAfterSeq == 2      \* largest after_seq a client passes
MaxPathLen == 3       \* tokens of a client-supplied file name or path
MaxUsage == 2         \* LLM and tool callbacks the stats handler counts in a run
MaxClock == 2         \* time units the clock advances one at a time

JobIds == 1..MaxJobs

\* JobManager.__init__(self, max_workers: int = 2)
DEFAULT_MAX_WORKERS == 2

\* ------------------------------------------------------------------ text
None == [set |-> FALSE, s |-> <<>>]
Some(s) == [set |-> TRUE, s |-> s]

\* Python truthiness of an Optional[str]: None and "" are falsy.
Truthy(o) == o.set /\ o.s # <<>>

IsSpace(c) == c = " "

RECURSIVE LStrip(_)
LStrip(s) == IF s # <<>> /\ IsSpace(Head(s)) THEN LStrip(Tail(s)) ELSE s

RECURSIVE RStrip(_)
RStrip(s) ==
    IF s # <<>> /\ IsSpace(s[Len(s)]) THEN RStrip(SubSeq(s, 1, Len(s) - 1)) ELSE s

\* str.strip()
Strip(s) == RStrip(LStrip(s))

\* text[-n:]
LastChars(s, n) == IF Len(s) <= n THEN s ELSE SubSeq(s, Len(s) - n + 1, Len(s))

MESSAGE_TAIL == 2000

\* event_generator: if time.time() - heartbeat_at > 10
HEARTBEAT_INTERVAL == 10

\* str.upper(), on the letters the tickers are made of
UpperChar(c) == IF c = "a" THEN "A" ELSE IF c = "b" THEN "B" ELSE c

Upper(s) == [i \in 1..Len(s) |-> UpperChar(s[i])]

\* the decimal digits of a natural number
Digit(n) == <<"0", "1", "2", "3", "4", "5", "6", "7", "8", "9">>[n + 1]

RECURSIVE Decimal(_)
Decimal(n) == IF n < 10 THEN <<Digit(n)>> ELSE Decimal(n \div 10) \o <<Digit(n % 10)>>

\* ------------------------------------------------------------------ requests
\* JobCreateRequest: the fields _run_job and the handlers read.
Tickers == {<<"a">>, <<"A">>, <<"B">>}

Dates == {<<"1">>, <<"2">>}

Requests ==
    [ticker : Tickers, analysis_date : Dates, end_date : {None} \cup {Some(d) : d \in Dates}]

\* The request of the specifications that are not about the directories.
DefaultRequest == [ticker |-> <<"A">>, analysis_date |-> <<"1">>, end_date |-> None]

\* payload.end_date or payload.analysis_date
trade_date(payload) ==
    IF Truthy(payload.end_date) THEN payload.end_date.s ELSE payload.analysis_date

\* ------------------------------------------------------------------ report keys
\* REPORT_FILES, restricted to two of its eight keys, in dict order.
REPORT_KEYS == <<"market_report", "trader_investment_plan">>

ReportKeySet == {REPORT_KEYS[i] : i \in 1..Len(REPORT_KEYS)}

REPORT_FILES ==
    [k \in ReportKeySet |->
        IF k = "market_report" THEN "market_report.md" ELSE "trader_investment_plan.md"]

\* ------------------------------------------------------------------ pipeline inputs
\* A snapshot (chunk): the text of its last message (None: no message) and,
\* per report key, the value chunk.get(key) (None: key absent).
ReportValues == {None, Some(<<" ">>), Some(<<"a">>), Some(<<"b">>)}
MessageValues == {None, Some(<<"m">>)}

Chunks == [messages : MessageValues, reports : [ReportKeySet -> ReportValues]]

\* The one snapshot of the specifications about scheduling and streaming.
PoolChunks ==
    {c \in Chunks : c.messages = Some(<<"m">>) /\ c.reports["trader_investment_plan"] = None
                    /\ c.reports["market_report"] = Some(<<"a">>)}

\* final_state = {} before the first snapshot.
EmptyState == [messages |-> None, reports |-> [k \in ReportKeySet |-> None]]

\* The final snapshot as _write_archive reads it: the top-level keys, and the
\* two nested states, each a dict, None, or a value that is no dict.  Three
\* top-level keys, two keys of investment_debate_state and three of
\* risk_debate_state stand for the thirteen the bundle is built from.
ArchiveValues == {None, Some(<<" ">>), Some(<<"a">>)}

TopKeys == {"market_report", "quant_report", "trader_investment_plan"}

DebateKeys == {"bull_history", "judge_decision"}

RiskKeys == {"aggressive_history", "neutral_history", "judge_decision"}

NestedStates(keys) ==
    {[kind |-> "none", at |-> [k \in keys |-> None]],
     [kind |-> "text", at |-> [k \in keys |-> None]]}
    \cup {[kind |-> "dict", at |-> f] : f \in [keys -> ArchiveValues]}

\* the artifact files report_dir.glob("*") finds
ArtifactNames == {"p.png"}

FinalStates ==
    [top : [TopKeys -> ArchiveValues],
     investment_debate_state : NestedStates(DebateKeys),
     risk_debate_state : NestedStates(RiskKeys)]

EmptyFinal ==
    [top |-> [k \in TopKeys |-> None],
     investment_debate_state |-> [kind |-> "none", at |-> [k \in DebateKeys |-> None]],
     risk_debate_state |-> [kind |-> "none", at |-> [k \in RiskKeys |-> None]]]

\* str(exc) of the failures a run can raise.
ExcMessages == {<<>>, <<"e">>}

\* ------------------------------------------------------------------ events
CounterKeys == {"llm_calls", "tool_calls", "tokens_in", "tokens_out"}

NoData ==
    [status |-> "", error |-> None, report_key |-> "", length |-> 0,
     content |-> <<>>, reports |-> {}, artifacts |-> {}, archive_dir |-> None,
     archive_files |-> {}, llm_calls |-> 0, tool_calls |-> 0, tokens_in |-> 0,
     tokens_out |-> 0]

\* payload = {"status": status}; if error: payload["error"] = error
StatusData(status, error) ==
    [NoData EXCEPT !.status = status,
                   !.error = IF Truthy(error) THEN error ELSE None]

TerminalStatuses == {"succeeded", "failed", "cancelled"}


\* ------------------------------------------------------------------ state
VARIABLES
    max_workers,  \* width of JobManager._executor
    jobs,         \* JobManager._jobs: job_id -> JobRecord
    queue,        \* work queue of the executor: submitted run tasks not yet started
    busy,         \* job ids whose run task a worker thread is executing
    pc,           \* per job id: position of create_job / of its run task
    frame,        \* per job id: locals of _run_job
    live,         \* per job id: files of its live report directory
    archive,      \* per job id: content of the bundle's report files
    consumed,     \* history: the snapshots the run task has taken from the pipeline
    raised,       \* history: where the run task's failure was raised ("" = none)
    submitted,    \* history: job ids in the order executor.submit was called
    streams,      \* stream sessions (event_generator instances)
    read,         \* the last list_events_since call of a plain reader
    lock,         \* holder of JobManager._lock ("" = free)
    posted,       \* per job id: the status in the response of POST /api/jobs
    held,         \* GET /api/jobs/{id}: the record as get_job returned it, and as
                  \* the handler reads it for the response
    fetch,        \* the last file fetch request and its response
    bundle,       \* a final snapshot and the archive bundle built from it
    now           \* the clock: time.time() and datetime.now(), in time units

\* The state of the HTTP handlers other than the event stream
web == <<lock, posted, held, fetch, bundle>>

vars ==
    <<max_workers, jobs, queue, busy, pc, frame, live, archive, consumed, raised,
      submitted, streams, read, web, now>>

\* @dataclass JobRecord, as constructed by JobRecord(job_id=..., payload=...)
JobRecord ==
    [payload |-> DefaultRequest, status |-> "queued", created_at |-> 0, updated_at |-> 0,
     error |-> None, reports |-> {}, artifacts |-> {},
     archive_dir |-> None, archive_files |-> {}, llm_calls |-> 0, tool_calls |-> 0,
     tokens_in |-> 0, tokens_out |-> 0, events |-> <<>>, event_seq |-> 0]

\* StatsCallbackHandler(): nothing counted yet
NoStats == [k \in CounterKeys |-> 0]

\* locals of _run_job
Frame ==
    [previous_reports |-> [k \in ReportKeySet |-> <<>>], final_state |-> EmptyState,
     keys |-> <<>>, exc |-> <<>>, stats |-> NoStats]

NoFiles == [k \in ReportKeySet |-> None]

NoRead == [job_id |-> 0, after_seq |-> 0, known |-> FALSE, log |-> <<>>, result |-> <<>>]

\* No file fetch has been made.
NoFetch ==
    [endpoint |-> "", job_id |-> 0, name |-> <<>>, code |-> 0, served |-> <<>>,
     touched |-> FALSE]

\* No GET /api/jobs/{id} is in flight.
NoHeld == [pc |-> "idle", job_id |-> 0, record |-> JobRecord, seen |-> JobRecord]

\* No bundle has been built.
NoBundle ==
    [built |-> FALSE, final_state |-> EmptyFinal, report_dir |-> {}, files |-> {},
     dirs |-> {}, sections |-> <<>>]

\* JobManager(): an empty store, an idle pool, no request made
InitStore ==
    /\ max_workers \in 1..DEFAULT_MAX_WORKERS
    /\ jobs = <<>>
    /\ queue = <<>>
    /\ busy = {}
    /\ pc = [j \in JobIds |-> "none"]
    /\ frame = [j \in JobIds |-> Frame]
    /\ live = [j \in JobIds |-> NoFiles]
    /\ archive = [j \in JobIds |-> NoFiles]
    /\ consumed = [j \in JobIds |-> <<>>]
    /\ raised = [j \in JobIds |-> ""]
    /\ submitted = <<>>
    /\ streams = <<>>
    /\ read = NoRead
    /\ lock = ""
    /\ posted = [j \in JobIds |-> ""]
    /\ held = NoHeld
    /\ fetch = NoFetch
    /\ now = 0

Init == InitStore /\ bundle = NoBundle

\* ------------------------------------------------------------------ JobRecord
\* append_event reading the counter before it is incremented
append_event_stale(record, event_type, data) ==
    [record EXCEPT !.event_seq = @ + 1,
                   !.events = Append(@, [seq |-> record.event_seq, type |-> event_type,
                                         data |-> data]),
                   !.updated_at = now]

\* an event log that keeps its newest two events only
append_event_capped(record, event_type, data) ==
    LET seq == record.event_seq + 1
        kept == IF Len(record.events) >= 2 THEN Tail(record.events) ELSE record.events
    IN  [record EXCEPT !.event_seq = seq,
                       !.events = Append(kept, [seq |-> seq, type |-> event_type,
                                                data |-> data]),
                       !.updated_at = now]

\* JobRecord.append_event
append_event(record, event_type, data) ==
    LET seq == record.event_seq + 1
    IN  [record EXCEPT !.event_seq = seq,
                       !.events = Append(@, [seq |-> seq, type |-> event_type, data |-> data]),
                       !.updated_at = now]

\* ------------------------------------------------------------------ JobManager
\* JobManager.get_job: self._jobs.get(job_id); 0 stands for the unknown id.
Known(job_id) == job_id \in DOMAIN jobs

\* list_events_since with an inclusive cursor
list_events_from(job_id, after_seq) ==
    IF ~Known(job_id) THEN <<>>
    ELSE SelectSeq(jobs[job_id].events, LAMBDA e : e.seq >= after_seq)

\* JobManager.list_events_since, on the registry as it is when the lock is held
list_events_since(job_id, after_seq) ==
    IF ~Known(job_id) THEN <<>>
    ELSE SelectSeq(jobs[job_id].events, LAMBDA e : e.seq > after_seq)

\* JobManager._update_status, first half: the field assignments
set_status(record, status, error) ==
    [record EXCEPT !.status = status,
                   !.error = IF Truthy(error) THEN error ELSE @,
                   !.updated_at = now]

\* JobManager._update_status, second half: record.append_event("status", payload)
status_event(record, status, error) ==
    append_event(record, "status", StatusData(status, error))

JobsWith(j, record) == [i \in DOMAIN jobs \cup {j} |-> IF i = j THEN record ELSE jobs[i]]

\* with self._lock: the lock is taken when no other thread holds it; the
\* steps below that take it release it within the step.
LockFree == lock = ""

\* create_job up to the registration: uuid4, JobRecord(...), the initial
\* status event, and self._jobs[job_id] = record under the lock.
Register(j, payload) ==
    /\ pc[j] = "none"
    /\ LockFree
    /\ \A i \in JobIds : i < j => pc[i] # "none"
    /\ jobs' = JobsWith(j,
            append_event(
                [JobRecord EXCEPT !.payload = payload, !.created_at = now, !.updated_at = now],
                "status", StatusData("queued", None)))
    /\ pc' = [pc EXCEPT ![j] = "registered"]
    /\ UNCHANGED <<now, web, max_workers, queue, busy, frame, live, archive, consumed, raised,
                   submitted, streams, read>>

\* a create_job that submits the run task without registering the record
SubmitEarly(j) ==
    /\ pc[j] = "none"
    /\ \A i \in JobIds : i < j => pc[i] # "none"
    /\ queue' = Append(queue, j)
    /\ submitted' = Append(submitted, j)
    /\ pc' = [pc EXCEPT ![j] = "queued"]
    /\ UNCHANGED <<now, web, max_workers, jobs, busy, frame, live, archive, consumed, raised,
                   streams, read>>

\* a create_job that submits the run task of the record twice
SubmitTwice(j) ==
    /\ pc[j] = "registered"
    /\ queue' = queue \o <<j, j>>
    /\ submitted' = submitted \o <<j, j>>
    /\ pc' = [pc EXCEPT ![j] = "queued"]
    /\ UNCHANGED <<now, web, max_workers, jobs, busy, frame, live, archive, consumed, raised,
                   streams, read>>

\* create_job: self._executor.submit(self._run_job, job_id)
Submit(j) ==
    /\ pc[j] = "registered"
    /\ queue' = Append(queue, j)
    /\ submitted' = Append(submitted, j)
    /\ pc' = [pc EXCEPT ![j] = "queued"]
    /\ UNCHANGED <<now, web, max_workers, jobs, busy, frame, live, archive, consumed, raised,
                   streams, read>>

\* a pool that takes the newest work item
NewestTask(q) == q[Len(q)]

\* The work item a free worker thread takes next from the executor's queue.
NextTask(q) == Head(q)

\* a pool that starts a thread for every submission
WorkerAlways == TRUE

\* ThreadPoolExecutor(max_workers=max_workers): a thread of the pool is idle.
WorkerFree == Cardinality(busy) < max_workers

\* A worker thread of the pool takes a run task; _run_job looks its record up.
StartTask(j) ==
    /\ queue # <<>>
    /\ WorkerFree
    /\ LockFree
    /\ j = NextTask(queue)
    /\ queue' = SelectSeq(queue, LAMBDA i : i # j)
    /\ IF Known(j)
         THEN busy' = busy \cup {j} /\ pc' = [pc EXCEPT ![j] = "upd_running"]
         ELSE busy' = busy /\ pc' = [pc EXCEPT ![j] = "done"]
    /\ UNCHANGED <<now, web, max_workers, jobs, frame, live, archive, consumed, raised,
                   submitted, streams, read>>

\* ------------------------------------------------------------------ _run_job
Goto(j, label) == pc' = [pc EXCEPT ![j] = label]

\* _update_status(record, "running"): record.status = "running"
UpdRunning(j) ==
    /\ pc[j] = "upd_running"
    /\ jobs' = [jobs EXCEPT ![j] = set_status(@, "running", None)]
    /\ Goto(j, "ev_running")
    /\ UNCHANGED <<now, web, max_workers, queue, busy, frame, live, archive, consumed, raised,
                   submitted, streams, read>>

\* _update_status(record, "running"): the status event
EvRunning(j) ==
    /\ pc[j] = "ev_running"
    /\ jobs' = [jobs EXCEPT ![j] = status_event(@, "running", None)]
    /\ Goto(j, "setup")
    /\ UNCHANGED <<now, web, max_workers, queue, busy, frame, live, archive, consumed, raised,
                   submitted, streams, read>>

\* a run task without the try/except: the exception leaves _run_job
RaiseUncaught(j, e, where) ==
    /\ frame' = [frame EXCEPT ![j].exc = e]
    /\ raised' = [raised EXCEPT ![j] = where]
    /\ Goto(j, "done")

\* a run task that swallows the exception and goes on iterating
RaiseSwallowed(j, e, where) ==
    /\ frame' = [frame EXCEPT ![j].exc = e]
    /\ raised' = [raised EXCEPT ![j] = where]
    /\ Goto(j, "stream")

\* An exception leaves the try block: control goes to the except clause
\* with str(exc) = e.
Raise(j, e, where) ==
    /\ frame' = [frame EXCEPT ![j].exc = e]
    /\ raised' = [raised EXCEPT ![j] = where]
    /\ Goto(j, "upd_failed")

\* Configuration, TradingAgentsGraph(...), the initial state and
\* live_report_dir.mkdir succeed.
Setup(j) ==
    /\ pc[j] = "setup"
    /\ Goto(j, "stream")
    /\ UNCHANGED <<now, web, max_workers, jobs, queue, busy, frame, live, archive, consumed,
                   raised, submitted, streams, read>>

\* One of them raises.
SetupRaises(j, e) ==
    /\ pc[j] = "setup"
    /\ Raise(j, e, "setup")
    /\ UNCHANGED <<now, web, max_workers, jobs, queue, busy, live, archive, consumed, submitted,
                   streams, read>>

\* _message_to_text(last_message) of a message whose content is a str
message_to_text(message) == message.s

StatsTotal(stats) ==
    stats["llm_calls"] + stats["tool_calls"] + stats["tokens_in"] + stats["tokens_out"]

\* A callback of the run's LLM or tool calls reaches the StatsCallbackHandler
\* while the pipeline computes its next snapshot: the handler's count grows.
Use(j, key) ==
    /\ pc[j] = "stream"
    /\ StatsTotal(frame[j].stats) < MaxUsage
    /\ frame' = [frame EXCEPT ![j].stats[key] = @ + 1]
    /\ UNCHANGED <<now, web, max_workers, jobs, queue, busy, pc, live, archive, consumed,
                   raised, submitted, streams, read>>

\* stats_handler.get_stats(): the counts at the moment of the call
get_stats(stats) == stats

\* the record keeping the increase since the last snapshot
record_stats_delta(record, stats) ==
    [record EXCEPT !.llm_calls = stats["llm_calls"] - @,
                   !.tool_calls = stats["tool_calls"] - @,
                   !.tokens_in = stats["tokens_in"] - @,
                   !.tokens_out = stats["tokens_out"] - @]

\* record.llm_calls = int(stats.get("llm_calls", 0)), and the three others
record_stats(record, stats) ==
    [record EXCEPT !.llm_calls = stats["llm_calls"],
                   !.tool_calls = stats["tool_calls"],
                   !.tokens_in = stats["tokens_in"],
                   !.tokens_out = stats["tokens_out"]]

\* graph.graph.stream yields a chunk: final_state, the usage counters, and the
\* message event
StreamChunk(j, chunk) ==
    /\ pc[j] = "stream"
    /\ consumed' = [consumed EXCEPT ![j] = Append(@, chunk)]
    /\ frame' = [frame EXCEPT ![j].final_state = chunk, ![j].keys = REPORT_KEYS]
    /\ jobs' = [jobs EXCEPT ![j] =
            LET record == record_stats(@, get_stats(frame[j].stats))
            IN  IF chunk.messages.set /\ message_to_text(chunk.messages) # <<>>
                THEN append_event(record, "message",
                        [NoData EXCEPT !.content =
                            LastChars(message_to_text(chunk.messages), MESSAGE_TAIL)])
                ELSE record]
    /\ Goto(j, "keys")
    /\ UNCHANGED <<now, web, max_workers, queue, busy, live, archive, raised, submitted, streams,
                   read>>

\* graph.graph.stream raises
StreamRaises(j, e) ==
    /\ pc[j] = "stream"
    /\ Raise(j, e, "stream")
    /\ UNCHANGED <<now, web, max_workers, jobs, queue, busy, live, archive, consumed, submitted,
                   streams, read>>

\* graph.graph.stream is exhausted
StreamEnds(j) ==
    /\ pc[j] = "stream"
    /\ Goto(j, "finalize")
    /\ UNCHANGED <<now, web, max_workers, jobs, queue, busy, frame, live, archive, consumed,
                   raised, submitted, streams, read>>

\* a presence check in place of the content comparison
ReportPresent(previous, report_value) ==
    /\ report_value.set
    /\ Strip(report_value.s) # <<>>

\* isinstance(report_value, str) and report_value.strip()
\*   and previous_reports[report_key] != report_value
ReportChanged(previous, report_value) ==
    /\ report_value.set
    /\ Strip(report_value.s) # <<>>
    /\ previous # report_value.s

NextKey(j) ==
    /\ frame[j].keys # <<>>
    /\ pc[j] = "keys"

AfterKey(j) == IF Len(frame[j].keys) = 1 THEN "stream" ELSE "keys"

\* One pass of `for report_key in REPORT_FILES.keys()`
ReportKey(j) ==
    /\ NextKey(j)
    /\ LET k == Head(frame[j].keys)
           v == frame[j].final_state.reports[k]
       IN  IF ReportChanged(frame[j].previous_reports[k], v)
           THEN /\ frame' = [frame EXCEPT ![j].previous_reports[k] = v.s,
                                          ![j].keys = Tail(@)]
                /\ live' = [live EXCEPT ![j][k] = Some(v.s)]
                /\ jobs' = [jobs EXCEPT ![j] =
                        append_event(
                            [@ EXCEPT !.reports = @ \cup {REPORT_FILES[k]}],
                            "report_ready",
                            [NoData EXCEPT !.report_key = k, !.length = Len(v.s)])]
           ELSE /\ frame' = [frame EXCEPT ![j].keys = Tail(@)]
                /\ UNCHANGED <<live, jobs>>
    /\ Goto(j, AfterKey(j))
    /\ UNCHANGED <<now, web, max_workers, queue, busy, archive, consumed, raised, submitted,
                   streams, read>>

\* The same pass when write_text raises: previous_reports is already updated.
ReportWriteRaises(j, e) ==
    /\ NextKey(j)
    /\ LET k == Head(frame[j].keys)
           v == frame[j].final_state.reports[k]
       IN  /\ ReportChanged(frame[j].previous_reports[k], v)
           /\ frame' = [frame EXCEPT ![j].previous_reports[k] = v.s, ![j].exc = e]
    /\ raised' = [raised EXCEPT ![j] = "write"]
    /\ Goto(j, "upd_failed")
    /\ UNCHANGED <<now, web, max_workers, jobs, queue, busy, live, archive, consumed, submitted,
                   streams, read>>

\* _coerce_text of None and of a str
coerce_text(value) == IF value.set THEN value.s ELSE <<>>

\* _write_reports on a report directory emptied first
write_reports_fresh(files, final_state) ==
    [k \in ReportKeySet |->
        LET content == coerce_text(final_state.reports[k])
        IN  IF Strip(content) # <<>> THEN Some(content) ELSE None]

\* _write_reports: the report directory after it
write_reports(files, final_state) ==
    [k \in ReportKeySet |->
        LET content == coerce_text(final_state.reports[k])
        IN  IF Strip(content) # <<>> THEN Some(content) ELSE files[k]]

\* a bundle whose summary document is written only when a section has text
write_archive_sections(final_state) ==
    LET files ==
            (IF Strip(coerce_text(final_state.reports["market_report"])) # <<>>
             THEN {"1_analysts/market.md"} ELSE {})
            \cup (IF Strip(coerce_text(final_state.reports["trader_investment_plan"])) # <<>>
                  THEN {"3_trading/trader.md"} ELSE {})
    IN  IF files = {} THEN {} ELSE files \cup {"complete_report.md"}

\* _write_archive: the files of the bundle, for the modelled keys
write_archive(final_state) ==
    {"complete_report.md"}
    \cup (IF Strip(coerce_text(final_state.reports["market_report"])) # <<>>
          THEN {"1_analysts/market.md"} ELSE {})
    \cup (IF Strip(coerce_text(final_state.reports["trader_investment_plan"])) # <<>>
          THEN {"3_trading/trader.md"} ELSE {})

\* _write_archive: the content of the bundle's file of each modelled key
archive_contents(final_state) ==
    [k \in ReportKeySet |->
        LET content == coerce_text(final_state.reports[k])
        IN  IF Strip(content) # <<>> THEN Some(content) ELSE None]

\* live_report_dir: results/<TICKER>/<trade date>/reports under the project root
live_report_dir(payload) == <<Upper(payload.ticker), trade_date(payload)>>

\* datetime.now().strftime("%Y%m%d_%H%M%S"): the clock to the time unit
strftime(t) == Decimal(t)

\* str(archive_dir) of _write_archive: reports/<ticker>_<timestamp> under the
\* project root, named by its last segment
ArchiveDir(ticker, t) == Some(ticker \o <<"_">> \o strftime(t))

\* a run task that fails after the record's archive fields were assigned
FinalizeThenFails(j) ==
    /\ pc[j] = "finalize"
    /\ live' = [live EXCEPT ![j] = write_reports(@, frame[j].final_state)]
    /\ archive' = [archive EXCEPT ![j] = archive_contents(frame[j].final_state)]
    /\ jobs' = [jobs EXCEPT ![j].archive_dir = ArchiveDir(Upper(jobs[j].payload.ticker), now),
                            ![j].archive_files = write_archive(frame[j].final_state)]
    /\ Goto(j, "upd_failed")
    /\ UNCHANGED <<now, web, max_workers, queue, busy, frame, consumed, raised, submitted,
                   streams, read>>

\* a completed event that leaves the usage counters out
FinalizeNoCounters(j) ==
    /\ pc[j] = "finalize"
    /\ LET files == write_reports(live[j], frame[j].final_state)
           reports == {REPORT_FILES[k] : k \in {x \in ReportKeySet : files[x].set}}
           archive_files == write_archive(frame[j].final_state)
       IN  /\ live' = [live EXCEPT ![j] = files]
           /\ archive' = [archive EXCEPT ![j] = archive_contents(frame[j].final_state)]
           /\ jobs' = [jobs EXCEPT ![j] =
                   append_event(
                       [@ EXCEPT !.reports = reports, !.artifacts = {},
                                 !.archive_dir = ArchiveDir(Upper(jobs[j].payload.ticker), now),
                                 !.archive_files = archive_files],
                       "completed",
                       [NoData EXCEPT !.reports = reports,
                                      !.archive_dir =
                                          ArchiveDir(Upper(jobs[j].payload.ticker), now),
                                      !.archive_files = archive_files])]
    /\ Goto(j, "upd_succeeded")
    /\ UNCHANGED <<now, web, max_workers, queue, busy, frame, consumed, raised, submitted,
                   streams, read>>

\* After the loop: _write_reports, _write_archive, the listings, the record's
\* fields and the completed event.
Finalize(j) ==
    /\ pc[j] = "finalize"
    /\ LET files == write_reports(live[j], frame[j].final_state)
           reports == {REPORT_FILES[k] : k \in {x \in ReportKeySet : files[x].set}}
           archive_files == write_archive(frame[j].final_state)
       IN  /\ live' = [live EXCEPT ![j] = files]
           /\ archive' = [archive EXCEPT ![j] = archive_contents(frame[j].final_state)]
           /\ jobs' = [jobs EXCEPT ![j] =
                   append_event(
                       [@ EXCEPT !.reports = reports, !.artifacts = {},
                                 !.archive_dir = ArchiveDir(Upper(jobs[j].payload.ticker), now),
                                 !.archive_files = archive_files],
                       "completed",
                       [NoData EXCEPT !.reports = reports,
                                      !.artifacts = {},
                                      !.archive_dir =
                                          ArchiveDir(Upper(jobs[j].payload.ticker), now),
                                      !.archive_files = archive_files,
                                      !.llm_calls = jobs[j].llm_calls,
                                      !.tool_calls = jobs[j].tool_calls,
                                      !.tokens_in = jobs[j].tokens_in,
                                      !.tokens_out = jobs[j].tokens_out])]
    /\ Goto(j, "upd_succeeded")
    /\ UNCHANGED <<now, web, max_workers, queue, busy, frame, consumed, raised, submitted,
                   streams, read>>

\* _write_reports raises before its first write (in_archive = FALSE), or
\* _write_archive raises after _write_reports has written (in_archive = TRUE).
FinalizeRaises(j, e, in_archive) ==
    /\ pc[j] = "finalize"
    /\ live' = [live EXCEPT ![j] =
            IF in_archive THEN write_reports(@, frame[j].final_state) ELSE @]
    /\ Raise(j, e, "finalize")
    /\ UNCHANGED <<now, web, max_workers, jobs, queue, busy, archive, consumed, submitted,
                   streams, read>>

\* a worker thread that does not go back to the pool when its task ends
ReturnHeld(j) ==
    /\ busy' = busy
    /\ Goto(j, "done")

\* The worker thread returns from _run_job.
Return(j) ==
    /\ busy' = busy \ {j}
    /\ Goto(j, "done")

\* a run task whose status update raises after the completed event
UpdSucceededRaises(j) ==
    /\ pc[j] = "upd_succeeded"
    /\ Goto(j, "upd_failed")
    /\ UNCHANGED <<now, web, max_workers, jobs, queue, busy, frame, live, archive, consumed,
                   raised, submitted, streams, read>>

\* _update_status(record, "succeeded"): the field assignment
UpdSucceeded(j) ==
    /\ pc[j] = "upd_succeeded"
    /\ jobs' = [jobs EXCEPT ![j] = set_status(@, "succeeded", None)]
    /\ Goto(j, "ev_succeeded")
    /\ UNCHANGED <<now, web, max_workers, queue, busy, frame, live, archive, consumed, raised,
                   submitted, streams, read>>

\* a run task whose last statement raises into the except clause
EvSucceededRaises(j) ==
    /\ pc[j] = "ev_succeeded"
    /\ Goto(j, "upd_failed")
    /\ UNCHANGED <<now, web, max_workers, jobs, queue, busy, frame, live, archive, consumed,
                   raised, submitted, streams, read>>

\* _update_status(record, "succeeded"): the status event; the task ends
EvSucceeded(j) ==
    /\ pc[j] = "ev_succeeded"
    /\ jobs' = [jobs EXCEPT ![j] = status_event(@, "succeeded", None)]
    /\ Return(j)
    /\ UNCHANGED <<now, web, max_workers, queue, frame, live, archive, consumed, raised,
                   submitted, streams, read>>

\* a failure handler that marks every record of the store failed
UpdFailedAll(j) ==
    /\ pc[j] = "upd_failed"
    /\ jobs' = [i \in DOMAIN jobs |-> set_status(jobs[i], "failed", Some(frame[j].exc))]
    /\ Goto(j, "ev_failed")
    /\ UNCHANGED <<now, web, max_workers, queue, busy, frame, live, archive, consumed, raised,
                   submitted, streams, read>>

\* except: _update_status(record, "failed", error=str(exc)), field assignments
UpdFailed(j) ==
    /\ pc[j] = "upd_failed"
    /\ jobs' = [jobs EXCEPT ![j] = set_status(@, "failed", Some(frame[j].exc))]
    /\ Goto(j, "ev_failed")
    /\ UNCHANGED <<now, web, max_workers, queue, busy, frame, live, archive, consumed, raised,
                   submitted, streams, read>>

\* except: _update_status(record, "failed", error=str(exc)), the status event
EvFailed(j) ==
    /\ pc[j] = "ev_failed"
    /\ jobs' = [jobs EXCEPT ![j] = status_event(@, "failed", Some(frame[j].exc))]
    /\ Goto(j, "ev_error")
    /\ UNCHANGED <<now, web, max_workers, queue, busy, frame, live, archive, consumed, raised,
                   submitted, streams, read>>

\* except: record.append_event("error", {"message": str(exc)}); the task ends
EvError(j) ==
    /\ pc[j] = "ev_error"
    /\ jobs' = [jobs EXCEPT ![j] =
            append_event(@, "error", [NoData EXCEPT !.content = frame[j].exc])]
    /\ Return(j)
    /\ UNCHANGED <<now, web, max_workers, queue, frame, live, archive, consumed, raised,
                   submitted, streams, read>>

\* ------------------------------------------------------------------ readers
\* A plain reader calls list_events_since(job_id, after_seq).
ListEvents(job_id, after_seq) ==
    /\ LockFree
    /\ read' = [job_id |-> job_id, after_seq |-> after_seq, known |-> Known(job_id),
                log |-> IF Known(job_id) THEN jobs[job_id].events ELSE <<>>,
                result |-> list_events_since(job_id, after_seq)]
    /\ UNCHANGED <<now, web, max_workers, jobs, queue, busy, pc, frame, live, archive, consumed,
                   raised, submitted, streams>>

\* stream_job_events: 404 for an unknown job, else a new event_generator
\* with cursor = after_seq.
OpenStream(job_id, after_seq) ==
    /\ Len(streams) < MaxStreams
    /\ LockFree
    /\ Known(job_id)
    /\ streams' = Append(streams,
            [job_id |-> job_id, after_seq |-> after_seq, cursor |-> after_seq,
             emitted |-> <<>>, pc |-> "poll", polls |-> 0,
             open_seq |-> jobs[job_id].event_seq,
             heartbeat_at |-> now, heartbeats |-> 0, event_at |-> -1])
    /\ UNCHANGED <<now, web, max_workers, jobs, queue, busy, pc, frame, live, archive, consumed,
                   raised, submitted, read>>

\* the cursor set from the first event of the batch instead of the last
CursorAtFirst(cursor, events) == IF events = <<>> THEN cursor ELSE events[1].seq

\* for event in events: cursor = event["seq"]; yield ...
CursorAfter(cursor, events) == IF events = <<>> THEN cursor ELSE events[Len(events)].seq

\* event_generator: events = list_events_since(job_id, cursor) and the for loop
Poll(s) ==
    /\ s \in DOMAIN streams
    /\ streams[s].pc = "poll"
    /\ LockFree
    /\ LET events == list_events_since(streams[s].job_id, streams[s].cursor)
       IN  streams' = [streams EXCEPT
                ![s].emitted = @ \o [i \in 1..Len(events) |-> events[i].seq],
                ![s].cursor = CursorAfter(@, events),
                ![s].polls = IF @ < 2 /\ events # <<>> THEN @ + 1 ELSE @,
                ![s].event_at = IF events # <<>> THEN now ELSE @,
                ![s].pc = "check"]
    /\ UNCHANGED <<now, web, max_workers, jobs, queue, busy, pc, frame, live, archive, consumed,
                   raised, submitted, read>>

\* a generator that breaks as soon as the status is terminal
StreamDoneOnStatus(s) ==
    \/ ~Known(streams[s].job_id)
    \/ jobs[streams[s].job_id].status \in TerminalStatuses

\* event_generator: the two break tests; otherwise sleep and poll again
StreamDone(s) ==
    \/ ~Known(streams[s].job_id)
    \/ /\ jobs[streams[s].job_id].status \in TerminalStatuses
       /\ list_events_since(streams[s].job_id, streams[s].cursor) = <<>>

\* event_generator: time.time() - heartbeat_at > 10
HeartbeatDue(s) == now - streams[s].heartbeat_at > HEARTBEAT_INTERVAL

\* event_generator after the for loop: the break tests, the heartbeat, the sleep
Check(s) ==
    /\ s \in DOMAIN streams
    /\ streams[s].pc = "check"
    /\ LockFree
    /\ streams' =
          IF StreamDone(s) THEN [streams EXCEPT ![s].pc = "closed"]
          ELSE IF HeartbeatDue(s)
          THEN [streams EXCEPT ![s].pc = "poll", ![s].heartbeat_at = now,
                               ![s].heartbeats = @ + 1]
          ELSE [streams EXCEPT ![s].pc = "poll"]
    /\ UNCHANGED <<now, web, max_workers, jobs, queue, busy, pc, frame, live, archive, consumed,
                   raised, submitted, read>>

\* ------------------------------------------------------------------ specifications
\* create_job for one of `requests`
CreateWith(j, requests) == (\E payload \in requests : Register(j, payload)) \/ Submit(j)

Create(j) == CreateWith(j, {DefaultRequest})

Worker(j) ==
    \/ StartTask(j)
    \/ UpdRunning(j)
    \/ EvRunning(j)
    \/ Setup(j)
    \/ StreamEnds(j)
    \/ ReportKey(j)
    \/ Finalize(j)
    \/ UpdSucceeded(j)
    \/ EvSucceeded(j)
    \/ UpdFailed(j)
    \/ EvFailed(j)
    \/ EvError(j)

Failure(j, e) ==
    \/ SetupRaises(j, e)
    \/ StreamRaises(j, e)
    \/ ReportWriteRaises(j, e)
    \/ \E in_archive \in BOOLEAN : FinalizeRaises(j, e, in_archive)

\* The pipeline yields one of `chunks`, at most `limit` times a run.
Pipeline(j, chunks, limit) ==
    /\ Len(consumed[j]) < limit
    /\ \E chunk \in chunks : StreamChunk(j, chunk)

\* Spec: the store, the pool and every job, on small snapshots.
CreateJob == \E j \in JobIds : Create(j)

RunJob == \E j \in JobIds : Worker(j)

RunFails == \E j \in JobIds : Failure(j, <<"e">>)

RunStream == \E j \in JobIds : Pipeline(j, PoolChunks, PoolSnapshots)

Next == CreateJob \/ RunJob \/ RunFails \/ RunStream

Spec == Init /\ [][Next]_vars

\* SpecRun: one job alone in the store, on every snapshot of Chunks and every
\* failure message.
FirstJob == CHOOSE j \in JobIds : \A i \in JobIds : j <= i

InitRun == Init /\ max_workers = DEFAULT_MAX_WORKERS

CreateFirst == Create(FirstJob)

RunFirst == Worker(FirstJob)

FirstFails == \E e \in ExcMessages : Failure(FirstJob, e)

FirstStream == Pipeline(FirstJob, Chunks, MaxSnapshots)

NextRun == CreateFirst \/ RunFirst \/ FirstFails \/ FirstStream

SpecRun == InitRun /\ [][NextRun]_vars

\* SpecStream: one job on small snapshots, and the stream sessions on it.
FirstSmall == Pipeline(FirstJob, PoolChunks, PoolSnapshots)

FirstFailsSmall == Failure(FirstJob, <<"e">>)

Sessions ==
    \/ \E job_id \in JobIds, after_seq \in 0..MaxAfterSeq : OpenStream(job_id, after_seq)
    \/ \E s \in 1..MaxStreams : Poll(s) \/ Check(s)

NextStream == CreateFirst \/ RunFirst \/ FirstFailsSmall \/ FirstSmall \/ Sessions

SpecStream == InitRun /\ [][NextStream]_vars

\* SpecRead: one job on small snapshots, and a reader of the event log.
Reader == \E job_id \in JobIds, after_seq \in 0..MaxAfterSeq : ListEvents(job_id, after_seq)

NextRead == CreateFirst \/ RunFirst \/ FirstFailsSmall \/ FirstSmall \/ Reader

SpecRead == InitRun /\ [][NextRead]_vars

\* ------------------------------------------------------------------ helpers of the claims
Elems(q) == {q[i] : i \in 1..Len(q)}

\* The position of x in q (0 when absent)
Pos(q, x) == IF x \in Elems(q) THEN CHOOSE i \in 1..Len(q) : q[i] = x ELSE 0

Before(q, x, y) == Pos(q, x) > 0 /\ Pos(q, y) > 0 /\ Pos(q, x) < Pos(q, y)

Events(j) == jobs[j].events

EventsOfType(j, type) == {i \in 1..Len(Events(j)) : Events(j)[i].type = type}

TerminalEvents(j) ==
    {i \in EventsOfType(j, "status") : Events(j)[i].data.status \in TerminalStatuses}

Started(j) == pc[j] \notin {"none", "registered", "queued"}

\* ------------------------------------------------------------------ C1
\* C1: in every reachable state and for every job, the k-th event of the job's
\* log has seq = k (seq starts at 1, strictly increasing, no gaps).
SeqGapless ==
    \A j \in DOMAIN jobs : \A k \in 1..Len(Events(j)) : Events(j)[k].seq = k

\* Two jobs whose run tasks have both appended, one of them a full log.
SeqGaplessWitness ==
    \E i, j \in DOMAIN jobs :
        i # j /\ Len(Events(i)) >= 3 /\ Len(Events(j)) >= 5 /\ pc[i] # "done"

\* ------------------------------------------------------------------ C2
\* C2: list_events_since(job_id, n) returns exactly the events of the log with
\* seq > n, in ascending seq order; nothing when n is at least the highest
\* seq, and nothing for an unknown job.
ReadExact ==
    /\ ~read.known => read.result = <<>>
    /\ \A e \in Elems(read.log) : e.seq > read.after_seq <=> e \in Elems(read.result)
    /\ Elems(read.result) \subseteq Elems(read.log)
    /\ \A a, b \in 1..Len(read.result) : a < b => read.result[a].seq < read.result[b].seq
    /\ (\A e \in Elems(read.log) : e.seq <= read.after_seq) => read.result = <<>>

\* A read in the middle of a known job's log.
ReadExactWitness ==
    /\ read.known
    /\ read.after_seq > 0
    /\ Len(read.result) >= 2
    /\ Len(read.result) < Len(read.log)

\* ------------------------------------------------------------------ C3
\* C3: the log of a finished job holds exactly one status event with a
\* terminal status and that event is the last event of the log.
TerminalStatusLast ==
    \A j \in DOMAIN jobs :
        pc[j] = "done" =>
            /\ Cardinality(TerminalEvents(j)) = 1
            /\ Len(Events(j)) \in TerminalEvents(j)

\* ------------------------------------------------------------------ C4
ReportReady(j, k) ==
    {i \in EventsOfType(j, "report_ready") : Events(j)[i].data.report_key = k}

IsText(v) == v.set /\ Strip(v.s) # <<>>

\* The number of snapshots of `snaps` whose value for k is non-blank text and
\* differs from the last value recorded for k, `last` being recorded before.
RECURSIVE Changes(_, _, _)
Changes(snaps, k, last) ==
    IF snaps = <<>> THEN 0
    ELSE LET v == Head(snaps).reports[k]
             new == IsText(v) /\ v.s # last
         IN  (IF new THEN 1 ELSE 0) + Changes(Tail(snaps), k, IF new THEN v.s ELSE last)

\* The last value recorded for k after `snaps`
RECURSIVE LastRecorded(_, _)
LastRecorded(snaps, k) ==
    IF snaps = <<>> THEN <<>>
    ELSE LET v == snaps[Len(snaps)].reports[k]
         IN  IF IsText(v) THEN v.s ELSE LastRecorded(SubSeq(snaps, 1, Len(snaps) - 1), k)

\* The snapshots whose pass of the report loop for k has completed.
Passed(j, k) ==
    IF k \in Elems(frame[j].keys)
    THEN SubSeq(consumed[j], 1, Len(consumed[j]) - 1)
    ELSE consumed[j]

\* C4 as claimed: between snapshots and after the run, the number of
\* report_ready events for k equals the number of snapshots taken whose value
\* for k is non-blank text and differs from the last value recorded for k.
ReportReadyPerChange ==
    \A j \in DOMAIN jobs : \A k \in ReportKeySet :
        pc[j] # "keys" => Cardinality(ReportReady(j, k)) = Changes(consumed[j], k, <<>>)

\* C4 as amended: the number of report_ready events for k equals the number
\* of snapshots whose pass of the report loop for k has completed (no live
\* write of that snapshot raised up to k) and whose value for k is non-blank
\* text that differs from the last value recorded for k; after a completed
\* pass the last recorded value is the last non-blank text seen for k, so
\* repeated, blank and absent values neither append an event nor reset it.
ReportReadyPerPassedChange ==
    \A j \in DOMAIN jobs : \A k \in ReportKeySet :
        /\ Cardinality(ReportReady(j, k)) = Changes(Passed(j, k), k, <<>>)
        /\ k \notin Elems(frame[j].keys) =>
               frame[j].previous_reports[k] = LastRecorded(consumed[j], k)

\* A repeated value after a change, and a blank value after a change.
ReportReadyWitness ==
    \E j \in DOMAIN jobs : \E k, l \in ReportKeySet :
        /\ pc[j] = "done"
        /\ Len(consumed[j]) = 2
        /\ consumed[j][1].reports[k] = consumed[j][2].reports[k]
        /\ Cardinality(ReportReady(j, k)) = 1
        /\ ~IsText(consumed[j][2].reports[l])
        /\ consumed[j][2].reports[l].set
        /\ Cardinality(ReportReady(j, l)) = 1

\* ------------------------------------------------------------------ C5
\* C5: a stream session opened with cursor c has emitted seq c+1, c+2, ...
\* in this order: ascending, none skipped, none twice.
StreamInOrder ==
    \A s \in DOMAIN streams :
        /\ \A i \in 1..Len(streams[s].emitted) :
               streams[s].emitted[i] = streams[s].after_seq + i
        /\ streams[s].cursor = streams[s].after_seq + Len(streams[s].emitted)

\* A session opened behind the log, which replayed what was there and then
\* emitted an event appended after it opened, over two polls.
StreamInOrderWitness ==
    \E s \in DOMAIN streams :
        /\ streams[s].after_seq >= 1
        /\ streams[s].open_seq > streams[s].after_seq + 1
        /\ streams[s].polls = 2
        /\ streams[s].cursor > streams[s].open_seq

\* ------------------------------------------------------------------ C6
Running == {j \in DOMAIN jobs : jobs[j].status = "running"}

\* C6: at most max_workers jobs have status running; with a pool of width 1
\* a job submitted after another stays queued until the other is terminal.
AtMostNRunning ==
    /\ Cardinality(Running) <= max_workers
    /\ max_workers = 1 =>
           \A i, j \in DOMAIN jobs :
               Before(submitted, i, j) /\ jobs[i].status \notin TerminalStatuses
                   => jobs[j].status = "queued"

\* Width 1, two jobs submitted, the first running and the second waiting.
AtMostNRunningWitness ==
    /\ max_workers = 1
    /\ \E i, j \in DOMAIN jobs :
           Before(submitted, i, j) /\ jobs[i].status = "running" /\ pc[j] = "queued"

\* ------------------------------------------------------------------ C7
\* C7: a worker starts the run task of j only when no job submitted before j
\* is still waiting in the queue.
FifoAdmission ==
    [][\A j \in JobIds :
          pc[j] = "queued" /\ pc'[j] # "queued"
              => \A i \in JobIds : pc[i] = "queued" /\ i # j => Before(submitted, j, i)]_vars

\* Two jobs waited together, submitted in the opposite order of their
\* registration, and the first submitted has started.
FifoAdmissionWitness ==
    \E i, j \in JobIds :
        /\ i < j
        /\ Before(submitted, j, i)
        /\ Started(j)
        /\ pc[i] = "queued"
        /\ max_workers = 1

\* ------------------------------------------------------------------ C8
Handling == {"upd_failed", "ev_failed", "ev_error", "done"}

\* C8: a failure raised in a run task, wherever it is raised, goes to the
\* handler; when the task has ended the job is failed, its log holds exactly
\* one error event, and the worker thread is free again.
FailureCaught ==
    \A j \in JobIds :
        raised[j] # "" =>
            /\ pc[j] \in Handling
            /\ pc[j] = "done" =>
                   /\ jobs[j].status = "failed"
                   /\ Cardinality(EventsOfType(j, "error")) = 1
                   /\ j \notin busy

\* On a pool of width 1 a job failed and the job queued behind it was started.
FailureCaughtWitness ==
    \E i, j \in DOMAIN jobs :
        /\ max_workers = 1
        /\ raised[i] = "finalize"
        /\ pc[i] = "done"
        /\ Before(submitted, i, j)
        /\ Started(j)

\* ------------------------------------------------------------------ C9
HasErrorMessage(j) ==
    \E i \in EventsOfType(j, "error") : Events(j)[i].data.content # <<>>

\* C9: when the pipeline raised during iteration the job ends failed, with
\* the error field set and an error event whose message is not empty.
FailureMessageKept ==
    \A j \in DOMAIN jobs :
        raised[j] = "stream" /\ pc[j] = "done" =>
            /\ jobs[j].status = "failed"
            /\ jobs[j].error.set
            /\ HasErrorMessage(j)

\* ------------------------------------------------------------------ C10
\* C10: from the step in which the pipeline raises, no snapshot is taken, no
\* live file and no entry of the reports listing changes, archive_dir and
\* archive_files stay unset, and only status and error events are appended.
FailureFrame ==
    [][\A j \in DOMAIN jobs :
          raised'[j] = "stream" =>
              /\ consumed'[j] = consumed[j]
              /\ live'[j] = live[j]
              /\ jobs'[j].reports = jobs[j].reports
              /\ jobs'[j].archive_dir = None
              /\ jobs'[j].archive_files = {}
              /\ \A n \in (Len(Events(j)) + 1)..Len(jobs'[j].events) :
                     jobs'[j].events[n].type \in {"status", "error"}]_vars

\* The pipeline raised after two snapshots, a live file is on disk, and the
\* failure handling has run to its end.
FailureFrameWitness ==
    \E j \in DOMAIN jobs :
        /\ raised[j] = "stream"
        /\ pc[j] = "done"
        /\ Len(consumed[j]) = 2
        /\ \E k \in ReportKeySet : live[j][k].set
        /\ jobs[j].reports # {}

\* ------------------------------------------------------------------ paths
\* A client-supplied name is a sequence of tokens: the separators "/" and
\* "\", the text "..", and three plain names.  A path of the file system is
\* a sequence of components from the file system root, a component being the
\* tokens between two "/".
PathTokens == {"/", "\\", "..", "x.md", "p.png", "d"}

Names == UNION {[1..n -> PathTokens] : n \in 1..MaxPathLen}

\* the check without the backslash
HasSlash(name) == \E i \in 1..Len(name) : name[i] = "/"

\* "/" in name or "\\" in name
HasSeparator(name) == \E i \in 1..Len(name) : name[i] = "/" \/ name[i] = "\\"

\* str.split("/") of a name
RECURSIVE SplitName(_, _)
SplitName(name, current) ==
    IF name = <<>> THEN <<current>>
    ELSE IF Head(name) = "/" THEN <<current>> \o SplitName(Tail(name), <<>>)
    ELSE SplitName(Tail(name), Append(current, Head(name)))

\* pathlib: the parts of a relative or absolute name, empty parts dropped
NameParts(name) == SelectSeq(SplitName(name, <<>>), LAMBDA part : part # <<>>)

IsAbsolute(name) == name # <<>> /\ Head(name) = "/"

\* pathlib: base / name
JoinPath(base, name) == IF IsAbsolute(name) THEN NameParts(name) ELSE base \o NameParts(name)

Parent(path) == IF path = <<>> THEN <<>> ELSE SubSeq(path, 1, Len(path) - 1)

\* Path.resolve() without symbolic links: "." and ".." are folded lexically
RECURSIVE ResolveFrom(_, _)
ResolveFrom(at, rest) ==
    IF rest = <<>> THEN at
    ELSE IF Head(rest) = <<"..">> THEN ResolveFrom(Parent(at), Tail(rest))
    ELSE ResolveFrom(Append(at, Head(rest)), Tail(rest))

ResolvePath(path) == ResolveFrom(<<>>, path)

\* Path.parents
Parents(path) == {SubSeq(path, 1, n) : n \in 0..(Len(path) - 1)}

\* The files the server's directories hold when a fetch is made.
ProjectRoot == <<<<"proj">>>>

ReportRoot == ProjectRoot \o <<<<"results">>, <<"T">>, <<"D">>, <<"reports">>>>

ArchiveRoot == ProjectRoot \o <<<<"reports">>, <<"T_ts">>>>

\* the bundle of a finished run, written by _write_archive
BundleFiles ==
    {ArchiveRoot \o <<<<"x.md">>>>,
     ArchiveRoot \o <<<<"d">>, <<"x.md">>>>,
     ArchiveRoot \o <<<<"p.png">>>>}

Files ==
    {ReportRoot \o <<<<"x.md">>>>,
     ReportRoot \o <<<<"d">>, <<"p.png">>>>,
     Parent(ReportRoot) \o <<<<"x.md">>>>,
     Parent(ReportRoot) \o <<<<"p.png">>>>,
     Parent(ArchiveRoot) \o <<<<"x.md">>>>,
     <<<<"x.md">>>>}
    \cup (IF \E j \in DOMAIN jobs : jobs[j].archive_dir.set THEN BundleFiles ELSE {})

Dirs == UNION {Parents(f) : f \in Files}

\* The file or directory the operating system finds for a path: every
\* component on the way must exist ("missing" otherwise).
RECURSIVE LookupFrom(_, _)
LookupFrom(at, rest) ==
    IF at \notin Files \cup Dirs THEN [found |-> FALSE, at |-> <<>>]
    ELSE IF rest = <<>> THEN [found |-> TRUE, at |-> at]
    ELSE IF at \notin Dirs THEN [found |-> FALSE, at |-> <<>>]
    ELSE IF Head(rest) = <<"..">> THEN LookupFrom(Parent(at), Tail(rest))
    ELSE LookupFrom(Append(at, Head(rest)), Tail(rest))

Lookup(path) == LookupFrom(<<>>, path)

\* Path.exists(), Path.is_file()
Exists(path) == Lookup(path).found

IsFile(path) == Lookup(path).found /\ Lookup(path).at \in Files

\* Path.suffix.lower(), as far as the handlers tell suffixes apart: ".md",
\* ".png" (standing for the artifact suffixes ".png" and ".csv"), or "" for
\* any other one.
Suffix(path) ==
    LET last == path[Len(path)]
    IN  IF path = <<>> \/ last = <<"..">> THEN ""
        ELSE IF last[Len(last)] = "x.md" THEN ".md"
        ELSE IF last[Len(last)] = "p.png" THEN ".png"
        ELSE ""

\* report_dir.rglob(artifact_name) for a name without separator: the files
\* below report_dir whose name it is.
RGlob(root, name) ==
    {f \in Files : root \in Parents(f) /\ <<f[Len(f)]>> = NameParts(name)}

\* ------------------------------------------------------------------ fetch handlers
Response(code, served, touched) == [code |-> code, served |-> served, touched |-> touched]

\* get_report
get_report(job_id, report_name) ==
    IF HasSeparator(report_name) THEN Response(400, <<>>, FALSE)
    ELSE IF ~Known(job_id) THEN Response(404, <<>>, FALSE)
    ELSE LET report_path == JoinPath(ReportRoot, report_name)
         IN  IF ~Exists(report_path) \/ Suffix(report_path) # ".md" \/ ~IsFile(report_path)
             THEN Response(404, <<>>, TRUE)
             ELSE Response(200, Lookup(report_path).at, TRUE)

\* get_artifact
get_artifact(job_id, artifact_name) ==
    IF HasSeparator(artifact_name) THEN Response(400, <<>>, FALSE)
    ELSE IF ~Known(job_id) THEN Response(404, <<>>, FALSE)
    ELSE LET artifact_path == JoinPath(ReportRoot, artifact_name)
             matches == {f \in RGlob(ReportRoot, artifact_name) : Suffix(f) = ".png"}
         IN  IF ~Exists(artifact_path) \/ Suffix(artifact_path) # ".png"
                \/ ~IsFile(artifact_path)
             THEN IF matches = {} THEN Response(404, <<>>, TRUE)
                  ELSE Response(200, CHOOSE f \in matches : TRUE, TRUE)
             ELSE Response(200, Lookup(artifact_path).at, TRUE)

\* _resolve_archive_root of a known job: the job's archive_dir if it is a
\* directory, else the newest directory <TICKER>_* under reports/
resolve_archive_root(job_id) ==
    LET candidates == {d \in Dirs : Parent(d) = Parent(ArchiveRoot) /\ d = ArchiveRoot}
    IN  IF jobs[job_id].archive_dir.set /\ ArchiveRoot \in Dirs
        THEN [set |-> TRUE, path |-> ArchiveRoot]
        ELSE IF candidates = {} THEN [set |-> FALSE, path |-> <<>>]
        ELSE [set |-> TRUE, path |-> CHOOSE d \in candidates : TRUE]

\* get_archive_file
get_archive_file(job_id, file_path) ==
    IF ~Known(job_id) THEN Response(404, <<>>, FALSE)
    ELSE IF ~resolve_archive_root(job_id).set THEN Response(404, <<>>, FALSE)
    ELSE LET archive_root == resolve_archive_root(job_id).path
             target == ResolvePath(JoinPath(archive_root, file_path))
         IN  IF archive_root \notin Parents(target) /\ archive_root # target
             THEN Response(400, <<>>, TRUE)
             ELSE IF ~Exists(target) \/ ~IsFile(target) THEN Response(404, <<>>, TRUE)
             ELSE Response(200, target, TRUE)

Endpoints == {"report", "artifact", "archive"}

Handle(endpoint, job_id, name) ==
    IF endpoint = "report" THEN get_report(job_id, name)
    ELSE IF endpoint = "artifact" THEN get_artifact(job_id, name)
    ELSE get_archive_file(job_id, name)

\* A client fetches a file: GET /api/jobs/{job_id}/reports/{name} and the like.
Fetch(endpoint, job_id, name) ==
    /\ LET r == Handle(endpoint, job_id, name)
       IN  fetch' = [endpoint |-> endpoint, job_id |-> job_id, name |-> name,
                     code |-> r.code, served |-> r.served, touched |-> r.touched]
    /\ UNCHANGED <<now, max_workers, jobs, queue, busy, pc, frame, live, archive, consumed,
                   raised, submitted, streams, read, lock, posted, held, bundle>>

\* SpecFetch: one job that runs to success on small snapshots, and one file
\* fetch.
UnknownJob == CHOOSE j \in JobIds : j # FirstJob

Fetches ==
    /\ fetch = NoFetch
    /\ \E endpoint \in Endpoints, job_id \in {FirstJob, UnknownJob}, name \in Names :
           Fetch(endpoint, job_id, name)

\* _run_job when nothing raises
RunsThrough(j) ==
    \/ StartTask(j)
    \/ UpdRunning(j)
    \/ EvRunning(j)
    \/ Setup(j)
    \/ StreamEnds(j)
    \/ ReportKey(j)
    \/ Finalize(j)
    \/ UpdSucceeded(j)
    \/ EvSucceeded(j)

FirstRunsThrough == RunsThrough(FirstJob)

NextFetch == CreateFirst \/ FirstRunsThrough \/ FirstSmall \/ Fetches

SpecFetch == InitRun /\ [][NextFetch]_vars

\* ------------------------------------------------------------------ claims on SpecFetch
Fetched == fetch # NoFetch

RootOf(endpoint) == IF endpoint = "archive" THEN ArchiveRoot ELSE ReportRoot

\* the segments of a name, either separator ending a segment
Segments(name) ==
    NameParts([i \in 1..Len(name) |-> IF name[i] = "\\" THEN "/" ELSE name[i]])

ContainsSeparator(name) == \E i \in DOMAIN name : name[i] \in {"/", "\\"}

HasParentSegment(name) == \E i \in 1..Len(Segments(name)) : Segments(name)[i] = <<"..">>

\* the name, joined to the endpoint's root and normalised, is neither the
\* root nor below it
Outside(endpoint, name) ==
    LET target == ResolvePath(JoinPath(RootOf(endpoint), name))
    IN  RootOf(endpoint) \notin Parents(target) /\ RootOf(endpoint) # target

OutsideRootRejected ==
    Fetched =>
        /\ ((fetch.touched \/ fetch.code = 400) /\ Outside(fetch.endpoint, fetch.name))
               => fetch.code = 400
        /\ fetch.code = 200 => RootOf(fetch.endpoint) \in Parents(fetch.served)

\* the second half of C12 alone
ServedInsideRoot ==
    (Fetched /\ fetch.code = 200) => RootOf(fetch.endpoint) \in Parents(fetch.served)

\* ------------------------------------------------------------------ _write_archive
\* The keyed sections of the bundle, in the order _write_archive goes through
\* them: directory, header of the summary document, the state the keys are
\* read from, and (key, file name) per key.
ARCHIVE_SECTIONS ==
    << [dir |-> "1_analysts", header |-> "## I. Analyst Team Reports", from |-> "top",
        entries |-> << <<"market_report", "market.md">>, <<"quant_report", "quant.md">> >>],
       [dir |-> "2_research", header |-> "## II. Research Team Decision",
        from |-> "investment_debate_state",
        entries |-> << <<"bull_history", "bull.md">>, <<"judge_decision", "manager.md">> >>],
       [dir |-> "3_trading", header |-> "## III. Trading Team Plan", from |-> "top",
        entries |-> << <<"trader_investment_plan", "trader.md">> >>],
       [dir |-> "4_risk", header |-> "## IV. Risk Management Team Decision",
        from |-> "risk_debate_state",
        entries |-> << <<"aggressive_history", "aggressive.md">>,
                       <<"neutral_history", "neutral.md">> >>],
       [dir |-> "5_portfolio", header |-> "## V. Portfolio Manager Decision",
        from |-> "risk_debate_state",
        entries |-> << <<"judge_decision", "decision.md">> >>] >>

\* final_state.get(key, "") / debate_state.get(key, ""), debate_state being
\* final_state.get("investment_debate_state", {}) or {}
StateValue(final_state, from, key) ==
    IF from = "top" THEN final_state.top[key]
    ELSE IF final_state[from].kind = "dict" THEN final_state[from].at[key]
    ELSE None

\* isinstance(debate_state, dict)
SectionRuns(final_state, from) == from = "top" \/ final_state[from].kind # "text"

\* a builder that writes every key that is not the empty text
NonEmpty(content) == content # <<>>

\* if content.strip():
Populated(content) == Strip(content) # <<>>

\* the (key, file name) pairs of a section whose file is written
SectionParts(final_state, section) ==
    IF ~SectionRuns(final_state, section.from) THEN <<>>
    ELSE SelectSeq(section.entries,
            LAMBDA e : Populated(coerce_text(StateValue(final_state, section.from, e[1]))))

ArchiveFile(dir, file_name) == <<dir, file_name>>

\* _write_archive: the files and directories of the bundle and the section
\* headers of complete_report.md, in order
archive_bundle(final_state, report_dir) ==
    LET parts(i) == SectionParts(final_state, ARCHIVE_SECTIONS[i])
        written == {i \in DOMAIN ARCHIVE_SECTIONS : parts(i) # <<>>}
        copied == {ArchiveFile("6_artifacts", a) : a \in report_dir}
        keyed == SelectSeq([i \in DOMAIN ARCHIVE_SECTIONS |-> i], LAMBDA i : i \in written)
    IN  [files |-> UNION {{ArchiveFile(ARCHIVE_SECTIONS[i].dir, parts(i)[n][2]) :
                                n \in DOMAIN parts(i)} : i \in written}
                   \cup copied \cup {<<"complete_report.md">>},
         dirs |-> {ARCHIVE_SECTIONS[i].dir : i \in written}
                  \cup (IF copied # {} THEN {"6_artifacts"} ELSE {}),
         sections |-> [n \in DOMAIN keyed |-> ARCHIVE_SECTIONS[keyed[n]].header]
                      \o (IF copied # {} THEN <<"## VI. Artifacts">> ELSE <<>>)]

\* _write_archive is called on a final snapshot
BuildArchive ==
    /\ ~bundle.built
    /\ LET b == archive_bundle(bundle.final_state, bundle.report_dir)
       IN  bundle' = [bundle EXCEPT !.built = TRUE, !.files = b.files, !.dirs = b.dirs,
                                    !.sections = b.sections]
    /\ UNCHANGED <<now, max_workers, jobs, queue, busy, pc, frame, live, archive, consumed,
                   raised, submitted, streams, read, lock, posted, held, fetch>>

\* SpecArchive: the Archive Builder on every final snapshot.
InitArchive ==
    /\ InitStore
    /\ max_workers = DEFAULT_MAX_WORKERS
    /\ bundle \in {[NoBundle EXCEPT !.final_state = f, !.report_dir = a] :
                      f \in FinalStates, a \in SUBSET ArtifactNames}

NextArchive == BuildArchive

SpecArchive == InitArchive /\ [][NextArchive]_vars

\* ------------------------------------------------------------------ claims on SpecArchive
\* the value is text with a character that is no white space
NonBlankText(value) == value.set /\ \E i \in DOMAIN value.s : ~IsSpace(value.s[i])

SectionHasText(final_state, section) ==
    \E n \in DOMAIN section.entries :
        NonBlankText(StateValue(final_state, section.from, section.entries[n][1]))

\* C13: for every final snapshot, the bundle holds the file of a key only if
\* the key's value is non-blank text; a keyed section has its subdirectory and
\* its header in the summary document only if one of its keys is non-blank,
\* and has both whenever one of its keys is non-blank.
ArchiveOnlyPopulated ==
    bundle.built =>
        \A i \in DOMAIN ARCHIVE_SECTIONS :
            LET section == ARCHIVE_SECTIONS[i]
                has_header == \E n \in DOMAIN bundle.sections :
                                  bundle.sections[n] = section.header
            IN  /\ \A n \in DOMAIN section.entries :
                       ArchiveFile(section.dir, section.entries[n][2]) \in bundle.files
                           => NonBlankText(StateValue(bundle.final_state, section.from,
                                                      section.entries[n][1]))
                /\ section.dir \in bundle.dirs => SectionHasText(bundle.final_state, section)
                /\ has_header => SectionHasText(bundle.final_state, section)
                /\ SectionHasText(bundle.final_state, section)
                       => (has_header /\ section.dir \in bundle.dirs)

\* a snapshot with a blank key beside a populated one in one section, a
\* section of blank keys only, and a populated section
ArchiveOnlyPopulatedWitness ==
    /\ bundle.built
    /\ bundle.final_state.top["market_report"] = Some(<<" ">>)
    /\ bundle.final_state.top["quant_report"] = Some(<<"a">>)
    /\ bundle.final_state.top["trader_investment_plan"] = Some(<<" ">>)
    /\ ArchiveFile("1_analysts", "quant.md") \in bundle.files
    /\ ArchiveFile("1_analysts", "market.md") \notin bundle.files
    /\ "3_trading" \notin bundle.dirs
    /\ "5_portfolio" \in bundle.dirs

\* ------------------------------------------------------------------ C14
Succeeded(j) == j \in DOMAIN jobs /\ jobs[j].status = "succeeded"

FinalValue(j, k) == consumed[j][Len(consumed[j])].reports[k]

Respond(j) ==
    /\ pc[j] \notin {"none", "registered"}
    /\ posted[j] = ""
    /\ posted' = [posted EXCEPT ![j] = jobs[j].status]
    /\ UNCHANGED <<now, max_workers, jobs, queue, busy, pc, frame, live, archive, consumed,
                   raised, submitted, streams, read, lock, held, fetch, bundle>>

\* SpecPost: one job on small snapshots, and the handler that created it.
Responds == Respond(FirstJob)

NextPost == CreateFirst \/ RunFirst \/ FirstFailsSmall \/ FirstSmall \/ Responds

SpecPost == InitRun /\ [][NextPost]_vars

\* C15 as stated: the status in the response of POST /jobs is queued, in
\* every interleaving of the handler and the worker pool.
PostReturnsQueued == \A j \in JobIds : posted[j] # "" => posted[j] = "queued"

\* ------------------------------------------------------------------ C16
IsQueuedEvent(e) == e.seq = 1 /\ e.type = "status" /\ e.data.status = "queued"

\* C16: a record is in the store, with status(queued) as event 1 of its log,
\* from its registration on; until its run task starts it is in status queued
\* with that one event; its run task is submitted only after the registration,
\* so the task finds the record and runs it to a terminal status.
CreateOrder ==
    \A j \in JobIds :
        /\ pc[j] # "none" => (Known(j) /\ Len(Events(j)) >= 1 /\ IsQueuedEvent(Events(j)[1]))
        /\ j \in Elems(submitted) => Known(j)
        /\ pc[j] \in {"registered", "queued"} =>
               (Known(j) /\ jobs[j].status = "queued" /\ Len(Events(j)) = 1)
        /\ pc[j] = "registered" => j \notin Elems(submitted)
        /\ pc[j] = "done" => (Known(j) /\ jobs[j].status \in {"succeeded", "failed"})

\* A run task has found its record and ended, while a later job is
\* registered and not yet submitted.
CreateOrderWitness ==
    \E j, i \in JobIds :
        /\ pc[j] = "done"
        /\ Len(Events(j)) > 2
        /\ IsQueuedEvent(Events(j)[1])
        /\ pc[i] = "registered"

\* ------------------------------------------------------------------ C17
\* SpecSessionFair: one job on small snapshots and a single stream session
\* on it (sessions only read, so one stands for each), with a generator that
\* goes on polling: the loop of event_generator sleeps half a second and
\* takes its next step.
FirstSession ==
    \/ /\ streams = <<>>
       /\ \E job_id \in JobIds, after_seq \in 0..MaxAfterSeq : OpenStream(job_id, after_seq)
    \/ Poll(1)
    \/ Check(1)

NextSession == CreateFirst \/ RunFirst \/ FirstFailsSmall \/ FirstSmall \/ FirstSession

SpecSessionFair ==
    /\ InitRun
    /\ [][NextSession]_vars
    /\ WF_vars(Poll(1))
    /\ WF_vars(Check(1))

Closes(s) == s \in DOMAIN streams /\ streams[s].pc # "closed" /\ streams'[s].pc = "closed"

\* C17: a session on a known job closes only in a step where the job's status
\* is terminal and no event with seq above the cursor is in the log; and once
\* the run task has ended (the status is terminal, the log grows no more)
\* every open session closes eventually.
StreamCloses ==
    /\ [][\A s \in 1..MaxStreams :
            Closes(s) =>
                /\ jobs[streams[s].job_id].status \in TerminalStatuses
                /\ \A i \in 1..Len(Events(streams[s].job_id)) :
                       Events(streams[s].job_id)[i].seq <= streams[s].cursor]_vars
    /\ \A s \in 1..MaxStreams :
           (s \in DOMAIN streams /\ pc[streams[s].job_id] = "done")
               ~> (s \in DOMAIN streams /\ streams[s].pc = "closed")

\* A session opened while the job ran has closed after the run task's end.
StreamClosesWitness ==
    \E s \in DOMAIN streams :
        /\ streams[s].pc = "closed"
        /\ streams[s].open_seq < jobs[streams[s].job_id].event_seq
        /\ pc[streams[s].job_id] = "done"
        /\ streams[s].cursor = jobs[streams[s].job_id].event_seq

\* ------------------------------------------------------------------ JobManager._lock
\* list_events_since, step by step: `with self._lock:` is entered,
Acquire ==
    /\ LockFree
    /\ lock' = "reader"
    /\ UNCHANGED <<now, max_workers, jobs, queue, busy, pc, frame, live, archive, consumed,
                   raised, submitted, streams, read, posted, held, fetch, bundle>>

\* the record is looked up and its events are listed,
LockedRead(job_id, after_seq) ==
    /\ lock = "reader"
    /\ read' = [job_id |-> job_id, after_seq |-> after_seq, known |-> Known(job_id),
                log |-> IF Known(job_id) THEN jobs[job_id].events ELSE <<>>,
                result |-> list_events_since(job_id, after_seq)]
    /\ UNCHANGED <<now, max_workers, jobs, queue, busy, pc, frame, live, archive, consumed,
                   raised, submitted, streams, lock, posted, held, fetch, bundle>>

\* and the block is left.
Release ==
    /\ lock = "reader"
    /\ lock' = ""
    /\ UNCHANGED <<now, max_workers, jobs, queue, busy, pc, frame, live, archive, consumed,
                   raised, submitted, streams, read, posted, held, fetch, bundle>>

\* SpecLock: one job on small snapshots, and a reader inside list_events_since.
LockedReader ==
    \/ Acquire
    \/ \E job_id \in JobIds, after_seq \in 0..MaxAfterSeq : LockedRead(job_id, after_seq)
    \/ Release

NextLock == CreateFirst \/ RunFirst \/ FirstFailsSmall \/ FirstSmall \/ LockedReader

SpecLock == InitRun /\ [][NextLock]_vars

\* C18 as stated: the mutations of a record are made under the lock the
\* readers take, so no record changes in a step taken while a reader holds
\* the lock.
MutationsLocked ==
    [][lock = "reader" => \A j \in DOMAIN jobs : jobs'[j] = jobs[j]]_vars

\* ------------------------------------------------------------------ GET /api/jobs/{job_id}
\* get_job_status: record = job_manager.get_job(job_id), 404 when None.
\* get_job returns the JobRecord object of the store; held.record keeps the
\* values it has at that moment.
GetJob(job_id) ==
    /\ held.pc = "idle"
    /\ LockFree
    /\ held' = IF Known(job_id)
               THEN [pc |-> "got", job_id |-> job_id, record |-> jobs[job_id],
                     seen |-> jobs[job_id]]
               ELSE [NoHeld EXCEPT !.pc = "not_found", !.job_id = job_id]
    /\ UNCHANGED <<now, max_workers, jobs, queue, busy, pc, frame, live, archive, consumed,
                   raised, submitted, streams, read, lock, posted, fetch, bundle>>

\* get_job_status: after the directory listings, the response is built from
\* the fields of the object get_job returned.
ReadRecord ==
    /\ held.pc = "got"
    /\ held' = [held EXCEPT !.pc = "responded", !.seen = jobs[held.job_id]]
    /\ UNCHANGED <<now, max_workers, jobs, queue, busy, pc, frame, live, archive, consumed,
                   raised, submitted, streams, read, lock, posted, fetch, bundle>>

\* SpecStatus: one job on small snapshots, and one status request.
Status == (\E job_id \in JobIds : GetJob(job_id)) \/ ReadRecord

NextStatus == CreateFirst \/ RunFirst \/ FirstFailsSmall \/ FirstSmall \/ Status

SpecStatus == InitRun /\ [][NextStatus]_vars

\* C19 as stated: what get_job returned is a snapshot: the status, listings
\* and events the reader finds in it are those of the moment get_job
\* returned, whatever the worker has done since.
GetJobIsSnapshot == held.pc = "responded" => held.seen = held.record

\* ------------------------------------------------------------------ C20
StatusMoves == {<<"queued", "running">>, <<"running", "succeeded">>, <<"running", "failed">>}

\* C20: a record enters the store in status queued; its status changes only
\* from queued to running, from running to succeeded and from running to
\* failed, so a terminal status never changes; no record is ever cancelled.
StatusMachine ==
    /\ [][\A j \in DOMAIN jobs' :
            IF j \in DOMAIN jobs
            THEN jobs'[j].status # jobs[j].status
                     => <<jobs[j].status, jobs'[j].status>> \in StatusMoves
            ELSE jobs'[j].status = "queued"]_vars
    /\ [](\A j \in DOMAIN jobs :
            jobs[j].status \in {"queued", "running", "succeeded", "failed"})

\* the statuses of the status events of a job's log, in order
StatusTrail(j) ==
    LET ev == SelectSeq(Events(j), LAMBDA e : e.type = "status")
    IN  [n \in DOMAIN ev |-> ev[n].data.status]

\* One job has gone queued, running, succeeded and another queued, running,
\* failed.
StatusMachineWitness ==
    \E j, i \in DOMAIN jobs :
        /\ pc[j] = "done" /\ pc[i] = "done"
        /\ StatusTrail(j) = <<"queued", "running", "succeeded">>
        /\ StatusTrail(i) = <<"queued", "running", "failed">>
        /\ jobs[j].status = "succeeded"
        /\ jobs[i].status = "failed"

\* ------------------------------------------------------------------ usage counters
\* SpecUsage: one job on small snapshots, and the callbacks its stats handler
\* counts between them.
Callbacks == \E key \in CounterKeys : Use(FirstJob, key)

FirstRepeats == Pipeline(FirstJob, PoolChunks, MaxSnapshots)

NextUsage == CreateFirst \/ RunFirst \/ FirstFailsSmall \/ FirstRepeats \/ Callbacks

SpecUsage == InitRun /\ [][NextUsage]_vars

\* C21: no step lowers llm_calls, tool_calls, tokens_in or tokens_out of a
\* record, whatever the snapshots and the readings of the cumulative usage
\* counts between them.
CountersNeverDecrease ==
    [][\A j \in DOMAIN jobs : \A k \in CounterKeys : jobs'[j][k] >= jobs[j][k]]_vars

\* A job has succeeded after MaxSnapshots snapshots with usage counted in two
\* of its counters.
CountersNeverDecreaseWitness ==
    \E j \in DOMAIN jobs :
        /\ jobs[j].status = "succeeded"
        /\ Len(consumed[j]) >= 2
        /\ jobs[j].llm_calls >= 1
        /\ jobs[j].tokens_out >= 1

\* ------------------------------------------------------------------ archive fields
HasArchiveFields(j) == jobs[j].archive_dir.set \/ jobs[j].archive_files # {}

\* C22 as stated: a record whose status is queued, running or failed has
\* archive_dir unset and archive_files empty.
ArchiveOnlyWhenSucceeded ==
    \A j \in DOMAIN jobs :
        jobs[j].status \in {"queued", "running", "failed"} => ~HasArchiveFields(j)

\* C22, amended: the archive fields are unset while the status is queued or
\* failed; a record that has them has no failure raised, holds the completed
\* event as the last event but the succeeded one, and its status is still
\* running only in the one step between the completed event and the
\* assignment of succeeded.
ArchiveOnlyOnSuccessPath ==
    \A j \in DOMAIN jobs :
        /\ jobs[j].status \in {"queued", "failed"} => ~HasArchiveFields(j)
        /\ HasArchiveFields(j) =>
              /\ jobs[j].archive_dir.set
              /\ raised[j] = ""
              /\ Cardinality(EventsOfType(j, "completed")) = 1
              /\ jobs[j].status \in {"running", "succeeded"}
              /\ jobs[j].status = "running" <=> pc[j] = "upd_succeeded"
              /\ pc[j] = "upd_succeeded" =>
                    jobs[j].events[Len(jobs[j].events)].type = "completed"

\* A record with status running that has its archive fields.
ArchiveOnlyOnSuccessPathWitness ==
    \E j \in DOMAIN jobs :
        /\ jobs[j].status = "running"
        /\ jobs[j].archive_dir.set
        /\ "complete_report.md" \in jobs[j].archive_files

\* ------------------------------------------------------------------ two jobs, scheduled fairly
\* SpecPairFair: the first two jobs on small snapshots.  The client thread of
\* create_job and the worker threads of the pool keep running, and a pipeline
\* run yields finitely many snapshots: every job's next step is taken.
TwoJobs == {j \in JobIds : j <= FirstJob + 1}

Step(j) ==
    \/ Create(j)
    \/ Worker(j)
    \/ Failure(j, <<"e">>)
    \/ Pipeline(j, PoolChunks, PoolSnapshots)

CreatePair == \E j \in TwoJobs : Create(j)

RunPair == \E j \in TwoJobs : Worker(j)

PairFails == \E j \in TwoJobs : Failure(j, <<"e">>)

PairStream == \E j \in TwoJobs : Pipeline(j, PoolChunks, PoolSnapshots)

NextPair == CreatePair \/ RunPair \/ PairFails \/ PairStream

SpecPairFair == Init /\ [][NextPair]_vars /\ \A j \in TwoJobs : WF_vars(Step(j))

\* A step of the run task of job j, or of its failure handling.
TaskSteps(j) == j \in busy /\ (pc'[j] # pc[j] \/ frame'[j] # frame[j])

Terminal(j) == Known(j) /\ jobs[j].status \in {"succeeded", "failed"}

\* C23: a step of one job's run task, its failure handling included, leaves
\* the record of every other job as it is, and every job of the store reaches
\* its own terminal status whatever happens to the others.
FailuresLocal ==
    /\ [][\A j \in TwoJobs :
            TaskSteps(j) => \A i \in DOMAIN jobs \ {j} : jobs'[i] = jobs[i]]_vars
    /\ \A i \in TwoJobs : Known(i) ~> Terminal(i)

\* One job has failed and another has succeeded after it; both tasks have ended.
FailuresLocalWitness ==
    \E i, j \in DOMAIN jobs :
        /\ pc[i] = "done" /\ pc[j] = "done"
        /\ jobs[i].status = "failed"
        /\ jobs[j].status = "succeeded"
        /\ raised[i] = "stream"
        /\ jobs[j].error = None

\* ------------------------------------------------------------------ one run task per record
\* The run tasks submitted for job j: work items of the executor.
TasksOf(q, j) == {n \in DOMAIN q : q[n] = j}

\* C24: a job's run task is submitted once, so it is never both waiting and
\* executing and no second worker can take it; a worker takes the task at the
\* head of the queue, and a record of the store is changed only by a step of
\* the worker that executes its task.
OneTaskPerRecord ==
    /\ [](\A j \in JobIds :
            /\ Cardinality(TasksOf(submitted, j)) <= 1
            /\ Cardinality(TasksOf(queue, j)) <= 1
            /\ ~(j \in busy /\ TasksOf(queue, j) # {})
            /\ j \in busy \/ TasksOf(queue, j) # {} => TasksOf(submitted, j) # {} /\ Known(j))
    /\ [][\A j \in DOMAIN jobs :
            /\ jobs'[j] # jobs[j] => j \in busy
            /\ j \in busy' \ busy => j = Head(queue) /\ TasksOf(queue', j) = {}]_vars

\* Two workers execute the run tasks of two jobs, each on its own record.
OneTaskPerRecordWitness ==
    /\ Cardinality(busy) = 2
    /\ \A j \in busy : jobs[j].status = "running" /\ jobs[j].event_seq >= 2

\* ------------------------------------------------------------------ output directories
\* The clock advances by d time units, up to `limit`.
Tick(d, limit) ==
    /\ now + d <= limit
    /\ now' = now + d
    /\ UNCHANGED <<web, max_workers, jobs, queue, busy, pc, frame, live, archive, consumed,
                   raised, submitted, streams, read>>

\* SpecDirs: two jobs for any two requests, run by two workers while the
\* clock advances.
\* Three requests: two for one subject on different dates, one for another.
DirRequests ==
    {r \in Requests :
        \/ r.ticker = <<"a">> /\ r.analysis_date = <<"1">> /\ r.end_date = None
        \/ r.ticker = <<"A">> /\ r.analysis_date = <<"1">> /\ r.end_date = Some(<<"2">>)
        \/ r.ticker = <<"B">> /\ r.analysis_date = <<"1">> /\ r.end_date = None}

CreateRequested == \E j \in TwoJobs : CreateWith(j, DirRequests)

PairRunsThrough == \E j \in TwoJobs : RunsThrough(j)

ClockTicks == Tick(1, MaxClock)

NextDirs == CreateRequested \/ PairRunsThrough \/ PairStream \/ ClockTicks

SpecDirs == InitRun /\ [][NextDirs]_vars

\* The run task of job j has made its live report directory and is running.
WritesLive(j) ==
    j \in busy /\ pc[j] \in {"stream", "keys", "finalize", "upd_succeeded", "ev_succeeded"}

\* The run task of job j has written its archive directory and is running.
WritesArchive(j) == j \in busy /\ jobs[j].archive_dir.set

\* The subjects of two jobs differ (as the server names them, in upper case),
\* or the dates their runs are for differ.
SubjectOrDateDiffer(i, j) ==
    \/ Upper(jobs[i].payload.ticker) # Upper(jobs[j].payload.ticker)
    \/ trade_date(jobs[i].payload) # trade_date(jobs[j].payload)

\* C25 as stated: two jobs running at the same time whose subjects or dates
\* differ have different live report directories and different archive
\* directories.
DirsNeverShared ==
    \A i, j \in DOMAIN jobs :
        i # j /\ SubjectOrDateDiffer(i, j) =>
            /\ WritesLive(i) /\ WritesLive(j) =>
                  live_report_dir(jobs[i].payload) # live_report_dir(jobs[j].payload)
            /\ WritesArchive(i) /\ WritesArchive(j) =>
                  jobs[i].archive_dir # jobs[j].archive_dir

\* ------------------------------------------------------------------ archive without a record
\* C26 as stated: a fetch from the archive of a job the store has no record of,
\* made when a bundle directory reports/<TICKER>_* is on disk and the path names
\* a file of it, is served from that directory.
ArchiveResolvedWithoutRecord ==
    [][(/\ fetch' # fetch
        /\ fetch'.endpoint = "archive"
        /\ ~Known(fetch'.job_id)
        /\ ArchiveRoot \in Dirs
        /\ ResolvePath(JoinPath(ArchiveRoot, fetch'.name)) \in BundleFiles)
       => fetch'.code = 200]_vars

\* ------------------------------------------------------------------ the completed event
\* The completed event at position c of job j's log carries the record's
\* listings and counters.
CarriesRecord(j, c) ==
    LET data == Events(j)[c].data
    IN  /\ data.reports = jobs[j].reports
        /\ data.artifacts = jobs[j].artifacts
        /\ data.archive_dir = jobs[j].archive_dir
        /\ data.archive_files = jobs[j].archive_files
        /\ \A k \in CounterKeys : data[k] = jobs[j][k]

\* C27: when a completed event is in the log the bundle is built (the record
\* names its directory and its files, the summary document among them); the
\* only event after it is the status(succeeded) event, which is next; and in
\* every later state, the final one included, the listings and counters it
\* carries are those of the record.
CompletedBeforeSucceeded ==
    \A j \in DOMAIN jobs : \A c \in EventsOfType(j, "completed") :
        /\ jobs[j].archive_dir.set
        /\ "complete_report.md" \in jobs[j].archive_files
        /\ archive[j] = archive_contents(frame[j].final_state)
        /\ CarriesRecord(j, c)
        /\ c >= Len(Events(j)) - 1
        /\ c < Len(Events(j)) =>
              /\ Events(j)[c + 1].type = "status"
              /\ Events(j)[c + 1].data.status = "succeeded"
        /\ jobs[j].status = "succeeded" => pc[j] \in {"ev_succeeded", "done"}
        /\ pc[j] = "done" => c = Len(Events(j)) - 1

\* A job has succeeded; its completed event carries a report, the bundle's
\* files and counted usage.
CompletedBeforeSucceededWitness ==
    \E j \in DOMAIN jobs :
        /\ pc[j] = "done"
        /\ jobs[j].status = "succeeded"
        /\ \E c \in EventsOfType(j, "completed") :
              /\ Events(j)[c].data.reports # {}
              /\ Events(j)[c].data.llm_calls >= 1
              /\ Events(j)[c].data.tokens_in >= 1
              /\ Cardinality(Events(j)[c].data.archive_files) >= 2

\* ------------------------------------------------------------------ the log is append-only
IsPrefix(a, b) == Len(a) <= Len(b) /\ SubSeq(b, 1, Len(a)) = a

\* The events of a log after a cursor, as a reader holding the cursor gets them.
After(events, cursor) == SelectSeq(events, LAMBDA e : e.seq > cursor)

\* C28: every step leaves each job's event log a prefix of the log after the
\* step (no event removed, reordered or modified), so the log of any earlier
\* state is a prefix of the log of any later one; and for every cursor the
\* events after it before the step are a prefix of those after it afterwards.
LogAppendOnly ==
    [][\A j \in DOMAIN jobs :
          /\ IsPrefix(jobs[j].events, jobs'[j].events)
          /\ \A cursor \in 0..jobs[j].event_seq :
                IsPrefix(After(jobs[j].events, cursor), After(jobs'[j].events, cursor))]_vars

\* A job's task has ended with a log of five events or more.
LogAppendOnlyWitness ==
    \E j \in DOMAIN jobs :
        /\ pc[j] = "done"
        /\ Len(jobs[j].events) >= 5
        /\ jobs[j].event_seq = Len(jobs[j].events)

\* ------------------------------------------------------------------ heartbeats
\* SpecBeat: one job that runs to success on small snapshots, one stream
\* session on it from the start of the log, and the clock, which advances by
\* just over a heartbeat interval at a time.
BeatSession == OpenStream(FirstJob, 0) \/ Poll(1) \/ Check(1)

BeatClock == Tick(HEARTBEAT_INTERVAL + 1, 2 * (HEARTBEAT_INTERVAL + 1))

NextBeat == CreateFirst \/ FirstRunsThrough \/ FirstSmall \/ BeatSession \/ BeatClock

SpecBeat == InitRun /\ [][NextBeat]_vars

\* The session emits a heartbeat frame in this step.
Heartbeat(s) ==
    /\ s \in DOMAIN streams
    /\ streams'[s].heartbeats = streams[s].heartbeats + 1

\* C29 as stated: a session emits a heartbeat only when it has emitted no
\* event during the HEARTBEAT_INTERVAL time units before, and the heartbeat
\* leaves its cursor as it is.
HeartbeatOnlyWhenIdle ==
    [][\A s \in 1..MaxStreams :
          Heartbeat(s) =>
              /\ streams[s].event_at >= 0 => now - streams[s].event_at >= HEARTBEAT_INTERVAL
              /\ streams'[s].cursor = streams[s].cursor]_vars

\* the second half of C29 alone
HeartbeatKeepsCursor ==
    [][\A s \in 1..MaxStreams :
          Heartbeat(s) => streams'[s].cursor = streams[s].cursor]_vars

\* ------------------------------------------------------------------ updated_at
\* SpecClock: one job on small snapshots, one of them with no message and no
\* report, the callbacks its stats handler counts, and the clock.
QuietChunks == PoolChunks \cup {EmptyState}

FirstQuiet == Pipeline(FirstJob, QuietChunks, PoolSnapshots)

NextClock ==
    CreateFirst \/ RunFirst \/ FirstFailsSmall \/ FirstQuiet \/ Callbacks \/ ClockTicks

SpecClock == InitRun /\ [][NextClock]_vars

\* A step changes a field of job j's record other than updated_at.
Mutated(j) == [jobs'[j] EXCEPT !.updated_at = 0] # [jobs[j] EXCEPT !.updated_at = 0]

\* C30 as stated: a step of the run task that changes the status, the error,
\* a counter, a listing, the archive fields or the event log of a record
\* leaves its updated_at at the current time.
MutationsStamped ==
    [][\A j \in DOMAIN jobs : Mutated(j) => jobs'[j].updated_at = now']_vars

\* ------------------------------------------------------------------ best-effort archive
\* SpecRunFair: one job on at most PoolSnapshots snapshots of any content, with
\* the failures a run can raise; the client and the worker thread keep running.
FirstAny == Pipeline(FirstJob, Chunks, PoolSnapshots)

NextRunFair == CreateFirst \/ RunFirst \/ FirstFailsSmall \/ FirstAny

SpecRunFair == InitRun /\ [][NextRunFair]_vars /\ WF_vars(NextRunFair)

\* The job has succeeded with a completed event and the summary document.
SucceededWithSummary(j) ==
    /\ jobs[j].status = "succeeded"
    /\ EventsOfType(j, "completed") # {}
    /\ "complete_report.md" \in jobs[j].archive_files

\* C31: a job fails only when an exception was raised, whatever its final
\* snapshot; a run in which nothing raises ends succeeded, with a completed
\* event and a bundle that holds the summary document, also when the final
\* snapshot has missing or blank keys or is the empty one of a pipeline that
\* yielded nothing.
ArchiveBestEffort ==
    /\ [](\A j \in DOMAIN jobs :
            /\ jobs[j].status = "failed" => raised[j] # ""
            /\ EventsOfType(j, "completed") # {} =>
                  "complete_report.md" \in jobs[j].archive_files)
    /\ \A j \in JobIds :
          Known(j) ~> (pc[j] = "done" /\ (raised[j] = "" => SucceededWithSummary(j)))

\* A job has succeeded on a pipeline that yielded no snapshot: its bundle is
\* the summary document alone.
ArchiveBestEffortWitness ==
    \E j \in DOMAIN jobs :
        /\ pc[j] = "done"
        /\ consumed[j] = <<>>
        /\ SucceededWithSummary(j)
        /\ jobs[j].archive_files = {"complete_report.md"}
        /\ jobs[j].reports = {}

\* The same on a final snapshot with one blank and one missing key.
ArchiveBestEffortBlank ==
    \E j \in DOMAIN jobs :
        /\ pc[j] = "done"
        /\ consumed[j] # <<>>
        /\ frame[j].final_state.reports["market_report"] = Some(<<" ">>)
        /\ frame[j].final_state.reports["trader_investment_plan"] = None
        /\ SucceededWithSummary(j)

\* ------------------------------------------------------------------ sessions closing at the end of a run
\* C32 as stated: once the run task has ended, a closed session has emitted
\* every event of the job's log whose seq is above the cursor it started with,
\* the terminal status event and the error event among them.
ClosedSessionComplete ==
    \A s \in DOMAIN streams :
        (streams[s].pc = "closed" /\ pc[streams[s].job_id] = "done") =>
            \A i \in 1..Len(Events(streams[s].job_id)) :
                Events(streams[s].job_id)[i].seq > streams[s].after_seq =>
                    Events(streams[s].job_id)[i].seq \in Elems(streams[s].emitted)

\* ------------------------------------------------------------------ status and status events
\* The status carried by the newest status event of a log.
RECURSIVE LastStatus(_)
LastStatus(events) ==
    IF events = <<>> THEN ""
    ELSE IF events[Len(events)].type = "status" THEN events[Len(events)].data.status
    ELSE LastStatus(SubSeq(events, 1, Len(events) - 1))

\* The failure message of a record: the content of its error event, or what
\* its status(failed) event carries.
HasFailureMessage(record) ==
    \E i \in 1..Len(record.events) :
        /\ record.events[i].type = "error"
        /\ record.events[i].data.content # <<>>

\* C33 as stated: the record a GET /api/jobs/{id} reads has the status of its
\* newest status event, and has its error set when it is failed with a
\* failure message that is not empty.
StatusMatchesLastEvent ==
    held.pc = "responded" =>
        /\ held.seen.status = LastStatus(held.seen.events)
        /\ (held.seen.status = "failed" /\ HasFailureMessage(held.seen)) =>
              Truthy(held.seen.error)

\* the second half of C33 alone, in every state of the store
FailedHasError ==
    \A j \in DOMAIN jobs :
        (jobs[j].status = "failed" /\ frame[j].exc # <<>>) => jobs[j].error = Some(frame[j].exc)

\* ------------------------------------------------------------------ termination
\* C34: with the threads scheduled fairly and finitely many snapshots a run,
\* every job create_job has registered ends succeeded or failed: it does not
\* stay queued for ever, and once running it does not stay running for ever.
JobsTerminate ==
    \A j \in TwoJobs :
        /\ Known(j) ~> Terminal(j)
        /\ (Known(j) /\ jobs[j].status = "queued")
               ~> (Known(j) /\ jobs[j].status # "queued")
        /\ (Known(j) /\ jobs[j].status = "running")
               ~> (Known(j) /\ jobs[j].status # "running")
        /\ Terminal(j) ~> (Known(j) /\ pc[j] = "done" /\ j \notin busy)

\* With a pool of one worker, a job that waited for the other has ended too.
JobsTerminateWitness ==
    /\ max_workers = 1
    /\ Cardinality(DOMAIN jobs) = 2
    /\ \A j \in DOMAIN jobs : Terminal(j) /\ pc[j] = "done"
    /\ busy = {}
    /\ \E j \in DOMAIN jobs : jobs[j].status = "failed"

\* ------------------------------------------------------------------ closing events
CountOf(j, type) == Cardinality(EventsOfType(j, type))

\* C35: a job's log holds at most one completed event and at most one error
\* event and never both; when the run task has ended, the completed event is
\* there exactly when the status is succeeded and the error event exactly
\* when the status is failed.
OneClosingEvent ==
    \A j \in DOMAIN jobs :
        /\ CountOf(j, "completed") <= 1
        /\ CountOf(j, "error") <= 1
        /\ CountOf(j, "completed") + CountOf(j, "error") <= 1
        /\ pc[j] = "done" =>
              /\ jobs[j].status \in {"succeeded", "failed"}
              /\ CountOf(j, "completed") = 1 <=> jobs[j].status = "succeeded"
              /\ CountOf(j, "error") = 1 <=> jobs[j].status = "failed"

\* Two ended jobs: one closed its log with completed, the other with error.
OneClosingEventWitness ==
    \E i, j \in DOMAIN jobs :
        /\ pc[i] = "done" /\ CountOf(i, "completed") = 1 /\ CountOf(i, "error") = 0
        /\ pc[j] = "done" /\ CountOf(j, "error") = 1 /\ CountOf(j, "completed") = 0
        /\ Len(consumed[j]) > 0

\* ------------------------------------------------------------------ report files
\* SpecReport: one job, the pass over a changed report key taken statement by
\* statement: the file write and the listing first, the event after them.
LengthValues == {None, Some(<<"a">>), Some(<<"b", "b">>)}

LengthChunks == [messages : {None}, reports : [ReportKeySet -> LengthValues]]

KeyChanged(j) ==
    /\ NextKey(j)
    /\ ReportChanged(frame[j].previous_reports[Head(frame[j].keys)],
                     frame[j].final_state.reports[Head(frame[j].keys)])

\* a pass that records the new text and announces it without writing the file
ReportWriteSkipped(j) ==
    /\ KeyChanged(j)
    /\ frame' = [frame EXCEPT ![j].previous_reports[Head(frame[j].keys)] =
                                  frame[j].final_state.reports[Head(frame[j].keys)].s]
    /\ Goto(j, "report_event")
    /\ UNCHANGED <<now, web, max_workers, jobs, queue, busy, live, archive, consumed, raised,
                   submitted, streams, read>>

\* previous_reports[report_key] = report_value, write_text, record.reports
ReportWrite(j) ==
    /\ KeyChanged(j)
    /\ LET k == Head(frame[j].keys)
           v == frame[j].final_state.reports[k]
       IN  /\ frame' = [frame EXCEPT ![j].previous_reports[k] = v.s]
           /\ live' = [live EXCEPT ![j][k] = Some(v.s)]
           /\ jobs' = [jobs EXCEPT ![j].reports = @ \cup {REPORT_FILES[k]}]
    /\ Goto(j, "report_event")
    /\ UNCHANGED <<now, web, max_workers, queue, busy, archive, consumed, raised, submitted,
                   streams, read>>

\* record.append_event("report_ready", {report_key, length}); the pass ends
ReportEvent(j) ==
    /\ pc[j] = "report_event"
    /\ LET k == Head(frame[j].keys)
           v == frame[j].final_state.reports[k]
       IN  jobs' = [jobs EXCEPT ![j] =
               append_event(@, "report_ready",
                            [NoData EXCEPT !.report_key = k, !.length = Len(v.s)])]
    /\ frame' = [frame EXCEPT ![j].keys = Tail(@)]
    /\ Goto(j, AfterKey(j))
    /\ UNCHANGED <<now, web, max_workers, queue, busy, live, archive, consumed, raised,
                   submitted, streams, read>>

FirstOther == ~KeyChanged(FirstJob) /\ Worker(FirstJob)

FirstWrites == ReportWrite(FirstJob)

FirstAnnounces == ReportEvent(FirstJob)

FirstLengths == Pipeline(FirstJob, LengthChunks, MaxSnapshots)

NextReport ==
    CreateFirst \/ FirstOther \/ FirstWrites \/ FirstAnnounces \/ FirstFailsSmall
        \/ FirstLengths

SpecReport == InitRun /\ [][NextReport]_vars

\* The step appends a report_ready event to the log of job j.
Announces(j) ==
    /\ Len(jobs'[j].events) = Len(jobs[j].events) + 1
    /\ jobs'[j].events[Len(jobs'[j].events)].type = "report_ready"

\* C36: of a job that runs alone on its subject and date, every report_ready
\* event of the log names a key whose live file is written and whose file
\* name is in the record's reports listing; and at the step that appends the
\* event for key k with length L the file already holds text of length L and
\* the listing already holds the name: the write comes first.
ReportWrittenBeforeEvent ==
    /\ [](\A j \in DOMAIN jobs : \A i \in EventsOfType(j, "report_ready") :
            /\ live[j][Events(j)[i].data.report_key].set
            /\ REPORT_FILES[Events(j)[i].data.report_key] \in jobs[j].reports)
    /\ [][\A j \in DOMAIN jobs :
            Announces(j) =>
                LET e == jobs'[j].events[Len(jobs'[j].events)]
                IN  /\ live[j][e.data.report_key].set
                    /\ Len(live[j][e.data.report_key].s) = e.data.length
                    /\ REPORT_FILES[e.data.report_key] \in jobs[j].reports
                    /\ live' = live]_vars

\* One key was announced twice with two lengths; the file holds the later text.
ReportWrittenBeforeEventWitness ==
    \E j \in DOMAIN jobs : \E i, h \in EventsOfType(j, "report_ready") :
        /\ i < h
        /\ Events(j)[i].data.report_key = Events(j)[h].data.report_key
        /\ Events(j)[i].data.length # Events(j)[h].data.length
        /\ Len(live[j][Events(j)[h].data.report_key].s) = Events(j)[h].data.length
        /\ jobs[j].status = "succeeded"

\* ------------------------------------------------------------------ archive of a job
\* The bundle directories under reports/: _write_archive has made one for
\* every record that names it.
BundleDirs == {jobs[i].archive_dir : i \in {x \in DOMAIN jobs : jobs[x].archive_dir.set}}

\* st_mtime of a bundle directory, to the time unit: the time in its name
mtime(d) ==
    CHOOSE t \in 0..now : \E ticker \in Tickers : d = ArchiveDir(Upper(ticker), t)

\* rglob("*") of a bundle directory: the files of the runs that wrote into it
BundleListing(d) ==
    UNION {jobs[i].archive_files : i \in {x \in DOMAIN jobs : jobs[x].archive_dir = d}}

\* _resolve_archive_root of a known job: the record's own directory, or else
\* the newest reports/<TICKER>_* directory (None: there is none); directories
\* of one mtime come in any order.
archive_roots(job_id) ==
    LET job == jobs[job_id]
        candidates ==
            {d \in BundleDirs : IsPrefix(Upper(job.payload.ticker) \o <<"_">>, d.s)}
    IN  IF job.archive_dir.set THEN {job.archive_dir}
        ELSE IF candidates = {} THEN {None}
        ELSE {d \in candidates : \A c \in candidates : mtime(c) <= mtime(d)}

\* What a handler answers about the archive of a job: the status it read, the
\* archive directory and the archive files.
ArchiveAnswer(job_id, archive_dir, archive_files) ==
    [NoHeld EXCEPT !.pc = "answered", !.job_id = job_id,
                   !.seen = [JobRecord EXCEPT !.status = jobs[job_id].status,
                                              !.archive_dir = archive_dir,
                                              !.archive_files = archive_files]]

\* GET /jobs/{id}: the archive fields of the response
get_job_status(job_id) ==
    /\ held.pc = "idle"
    /\ LockFree
    /\ Known(job_id)
    /\ \E archive_root \in archive_roots(job_id) :
          held' = ArchiveAnswer(
                      job_id,
                      IF archive_root.set THEN archive_root ELSE jobs[job_id].archive_dir,
                      jobs[job_id].archive_files
                          \cup (IF archive_root.set THEN BundleListing(archive_root) ELSE {}))
    /\ UNCHANGED <<now, max_workers, jobs, queue, busy, pc, frame, live, archive, consumed,
                   raised, submitted, streams, read, lock, posted, fetch, bundle>>

\* GET /jobs/{id}/archive
list_archive(job_id) ==
    /\ held.pc = "idle"
    /\ LockFree
    /\ Known(job_id)
    /\ \E archive_root \in archive_roots(job_id) :
          held' = ArchiveAnswer(
                      job_id,
                      IF archive_root.set THEN archive_root ELSE jobs[job_id].archive_dir,
                      IF archive_root.set THEN BundleListing(archive_root)
                      ELSE jobs[job_id].archive_files)
    /\ UNCHANGED <<now, max_workers, jobs, queue, busy, pc, frame, live, archive, consumed,
                   raised, submitted, streams, read, lock, posted, fetch, bundle>>

\* SpecBundle: two jobs on requested subjects, and one request to one of the
\* two handlers that report a job's archive.
StatusAsked == \E job_id \in TwoJobs : get_job_status(job_id)

ArchiveAsked == \E job_id \in TwoJobs : list_archive(job_id)

NextBundle ==
    CreateRequested \/ RunPair \/ PairFails \/ PairStream \/ StatusAsked
        \/ ArchiveAsked

SpecBundle == InitRun /\ [][NextBundle]_vars

\* C37 as stated: the archive directory and the archive files a handler
\* reports for a job are those of a bundle the job itself has written: a job
\* that has written none (queued, running before its bundle, or failed)
\* reports no directory and no file.
ArchiveReportedIsOwn ==
    held.pc = "answered" =>
        /\ held.seen.archive_dir.set =>
              held.seen.archive_dir = jobs[held.job_id].archive_dir
        /\ held.seen.archive_files \subseteq jobs[held.job_id].archive_files
        /\ held.seen.status \in {"queued", "failed"} => ~held.seen.archive_dir.set

====
